---- MODULE Spec2Model ----
(***************************************************************************)
(* Creative Compositor: the position store (config.json and its in-memory  *)
(* cache) and the batch renderer Compositor.render_all of                  *)
(* src/compositor.py, as a state machine.                                  *)
(*                                                                         *)
(* Conventions                                                             *)
(*  - an input path is a record [parent, stem, suffix]; pathlib's .stem    *)
(*    keeps the stem only, dropping the directory and the suffix;          *)
(*  - an output path is the sequence of its parts, as pathlib's "/"        *)
(*    builds it; str(path) joins the parts with "/";                       *)
(*  - scale is held in hundredths (100 stands for the float 1.0);          *)
(*  - a Python dict is a function on its set of keys.                      *)
(***************************************************************************)
EXTENDS Integers, Sequences, FiniteSets, TLC

(***************************************************************************)
(* Bounds of the model.                                                    *)
(***************************************************************************)
\* total number of files over the six input lists of one batch
MaxFiles == 4
\* total number of files over the six input lists when batches are re-run
MaxFilesRerun == 2
\* number of set_position calls between batches
MaxSets == 1
\* number of temporary files the calls may leave in the temp directory
MaxTmp == 2
\* total number of files of a batch whose compositor calls are recorded
MaxFilesJobs == 3

(***************************************************************************)
(* Value domains.                                                          *)
(***************************************************************************)
Formats == {"1x1", "9x16"}
Kinds == {"static", "video"}
XValues == {0, 7}
YValues == {0}
ScaleValues == {100, 50}
LoopValues == {1, 2}
Subfolders == {"", "render"}

\* the files the directory scanner can hand over, per bucket: two static
\* overlays of one format share the stem "o" (one of them in a subfolder,
\* which flatten_files merges into the same list), and a static and a video
\* overlay share the stem "o" too
HeroFiles(f) ==
  { [parent |-> "inputs/heroes/" \o f, stem |-> "a", suffix |-> ".png"],
    [parent |-> "inputs/heroes/" \o f, stem |-> "b", suffix |-> ".jpg"] }
OverlayFiles(f, k) ==
  IF k = "static"
    THEN { [parent |-> "inputs/overlays/static/" \o f, stem |-> "o", suffix |-> ".png"],
           [parent |-> "inputs/overlays/static/" \o f \o "/sub", stem |-> "o", suffix |-> ".png"] }
    ELSE { [parent |-> "inputs/overlays/video/" \o f, stem |-> "o", suffix |-> ".mov"],
           [parent |-> "inputs/overlays/video/" \o f, stem |-> "v", suffix |-> ".mp4"] }

VARIABLES
  \* --- position store
  config_file,      \* content of config.json: Absent, or the mapping it holds
  config,           \* Compositor.config, the in-memory mapping
  got,              \* the last get_position call: its key and what it returned
  sets,             \* number of set_position calls so far
  set_pc,           \* position in set_position / save_config, or "crashed", "dead"
  last_set,         \* the last set_position call: its arguments
  prior,            \* config.json as it was when set_position was last entered
                    \* statement by statement (Absent before)
  loaded,           \* the outcome of load_config in the last Compositor.__init__
  peer,             \* a second Compositor on the same base path: whether it is
                    \* constructed, its self.config, the sets so far
  \* --- arguments of render_all
  heroes,           \* heroes[f]: the hero list of format f
  overlays,         \* overlays[f][k]: the overlay list of format f and kind k
  output_subfolder,
  progress_callback, \* TRUE when a callback is passed, FALSE for None
  \* --- locals of render_all
  pc,               \* position in render_all
  format_type,
  hero_idx,         \* index of the current hero in heroes[format_type]
  overlay_idx,      \* index of the current overlay in its list
  all_tasks,
  total,
  i,                \* enumerate index of the execution loop (0-based)
  results,
  \* --- environment and history
  out_files,        \* output files on disk: str(path) -> index of the job that wrote it
  task_src,         \* per task, the list indices (hero, overlay) it was built from
  dispatched,       \* compositor calls of the batch, in call order
  returned,         \* per compositor call, what it returned
  calls,            \* progress callback invocations of the batch, in call order
  prev,             \* the previous batch: its job list, the config it expanded under,
                    \* what its jobs returned, its result and the files it left
  \* --- single compositor calls
  run,              \* the last compositor call: its inputs, its environment, its outcome
  record_runs,      \* TRUE when the compositor calls of a batch are recorded in run
  record_outcomes,  \* TRUE when the outcomes of a batch are kept in prev
  tmp_files         \* number of temporary files in the temp directory

store_vars == <<config_file, config, got, sets, set_pc, last_set, prior, loaded,
               peer>>
input_vars == <<heroes, overlays, output_subfolder, progress_callback>>
local_vars == <<pc, format_type, hero_idx, overlay_idx, all_tasks, total, i, results>>
hist_vars == <<out_files, task_src, dispatched, returned, calls, prev>>
call_vars == <<run, record_runs, record_outcomes, tmp_files>>
vars == <<store_vars, input_vars, local_vars, hist_vars, call_vars>>

(***************************************************************************)
(* Position store: load_config, get_position, set_position.                *)
(***************************************************************************)
\* set_position calls of two instances on one config.json, both counted
MaxPeerSets == 2

\* the empty dict
EmptyDict == [k \in {} |-> 0]
\* the text of an empty file: no member of a JSON object, no closing brace
EmptyText == [members |-> <<>>, closed |-> FALSE]
\* config.json does not exist / holds the text content
Absent == [exists |-> FALSE, content |-> EmptyText]
Present(content) == [exists |-> TRUE, content |-> content]
\* the outcome of a lookup that raises KeyError
KeyError == [raised |-> "KeyError"]
\* what json.load raises on a text that is not a complete JSON document
JSONDecodeError == [raised |-> "JSONDecodeError"]
\* no get_position call yet, no set_position call yet, no previous batch yet
NoCall == [called |-> FALSE, key |-> "", kind |-> "", stored |-> FALSE, value |-> EmptyDict]
NoSet == [called |-> FALSE, key |-> "", kind |-> "", x |-> 0, y |-> 0, scale |-> 0,
          loop_count |-> 0]
NoBatch == [ran |-> FALSE, tasks |-> <<>>, config |-> EmptyDict, subfolder |-> "",
            returned |-> <<>>, results |-> [success |-> 0, failed |-> 0, outputs |-> <<>>],
            files |-> {}]

\* no second Compositor constructed
NoPeer == [constructed |-> FALSE, config |-> EmptyDict, wrote_last |-> FALSE, sets |-> 0]

\* f"{format_type}_{overlay_type}"
PositionKey(fmt, kind) == fmt \o "_" \o kind

PositionKeys == { PositionKey(f, k) : f \in Formats, k \in Kinds }

\* the mapping load_config returns when config.json does not exist
DefaultConfig ==
  [ key \in PositionKeys |->
      IF key \in { PositionKey(f, "video") : f \in Formats }
        THEN [x |-> 0, y |-> 0, scale |-> 100, loop_count |-> 1]
        ELSE [x |-> 0, y |-> 0, scale |-> 100] ]

\* the values of the text, font_size, color and alignment arguments of
\* set_text_config
TextValues == {"Sample Text", "SALE"}
FontSizes == {48}
Colors == {"#FFFFFF"}
Alignments == {"mm"}

\* the decimal digits
Digits == <<"0", "1", "2", "3", "4", "5", "6", "7", "8", "9">>

\* the literal json.dump and str() write for the int n
RECURSIVE IntRepr(_)
IntRepr(n) ==
  IF n < 0 THEN "-" \o IntRepr(0 - n)
  ELSE IF n < 10 THEN Digits[n + 1]
  ELSE IntRepr(n \div 10) \o Digits[(n % 10) + 1]

\* the literal json.dump and str() write for the float s / 100 (s >= 0): the
\* shortest decimal that reads back as the float, with at least one decimal
FloatRepr(s) ==
  IntRepr(s \div 100) \o "." \o
    ( IF s % 10 = 0 THEN Digits[((s % 100) \div 10) + 1]
      ELSE Digits[((s % 100) \div 10) + 1] \o Digits[(s % 10) + 1] )

\* the literal json.dump writes for a str (no character of the texts used
\* needs an escape)
StrRepr(s) == "\"" \o s \o "\""

\* the fields of a text record that hold a str
StrFields == {"text", "color", "alignment"}

\* json.dump of one record: scale is a float, text, color and alignment are
\* strs, the other fields ints
json_dump_record(rec) ==
  [ field \in DOMAIN rec |->
      IF field = "scale" THEN FloatRepr(rec[field])
      ELSE IF field \in StrFields THEN StrRepr(rec[field])
      ELSE IntRepr(rec[field]) ]

\* the order in which the members of the mapping are written (a dict keeps
\* its insertion order; the order has no effect on the mapping read back)
KeyOrder == <<"1x1_static", "1x1_video", "9x16_static", "9x16_video", "1x1_text", "9x16_text">>

\* the members json.dump writes for the keys among the first n of KeyOrder
RECURSIVE Members(_, _)
Members(cfg, n) ==
  IF n = 0 THEN <<>>
  ELSE IF KeyOrder[n] \in DOMAIN cfg
    THEN Append(Members(cfg, n - 1),
                [key |-> KeyOrder[n], value |-> json_dump_record(cfg[KeyOrder[n]])])
    ELSE Members(cfg, n - 1)

\* json.dump(self.config, f, indent=2): the complete text
json_dump(cfg) == [members |-> Members(cfg, Len(KeyOrder)), closed |-> TRUE]

\* the number a JSON number literal reads back as: an int literal as the
\* int, a literal with a decimal point as the float (in hundredths)
ParseNumber(text) ==
  IF \E n \in XValues \cup YValues \cup LoopValues \cup FontSizes : IntRepr(n) = text
    THEN CHOOSE n \in XValues \cup YValues \cup LoopValues \cup FontSizes : IntRepr(n) = text
    ELSE CHOOSE s \in ScaleValues : FloatRepr(s) = text

\* the value a JSON literal reads back as: a string literal as the str
\* between its quotes, any other literal as its number
ParseValue(text) ==
  IF \E s \in TextValues \cup Colors \cup Alignments : StrRepr(s) = text
    THEN CHOOSE s \in TextValues \cup Colors \cup Alignments : StrRepr(s) = text
    ELSE ParseNumber(text)

\* json.load(f): the mapping of a complete text (a key written twice reads
\* as its last member), JSONDecodeError on an empty or cut text
json_load(text) ==
  IF ~text.closed THEN JSONDecodeError
  ELSE [ key \in { text.members[n].key : n \in 1..Len(text.members) } |->
           LET last == CHOOSE n \in 1..Len(text.members) :
                         /\ text.members[n].key = key
                         /\ \A m \in 1..Len(text.members) :
                              text.members[m].key = key => m <= n
               value == text.members[last].value
           IN [ field \in DOMAIN value |-> ParseValue(value[field]) ] ]

\* a plausible slip: the keys config.json does not hold filled in from the
\* default mapping
load_config_fill_defaults(file) ==
  IF file.exists
    THEN [ key \in PositionKeys |->
             IF key \in DOMAIN json_load(file.content)
               THEN json_load(file.content)[key]
               ELSE DefaultConfig[key] ]
    ELSE DefaultConfig

load_config(file) == IF file.exists THEN json_load(file.content) ELSE DefaultConfig

\* the defaults of get_position
PositionDefaults(kind) ==
  IF kind = "video"
    THEN [x |-> 0, y |-> 0, scale |-> 100, loop_count |-> 1]
    ELSE [x |-> 0, y |-> 0, scale |-> 100]

\* a plausible slip: self.config[key] in place of self.config.get(key, defaults)
get_position_subscript(cfg, fmt, kind) ==
  IF PositionKey(fmt, kind) \in DOMAIN cfg THEN cfg[PositionKey(fmt, kind)] ELSE KeyError

get_position(cfg, fmt, kind) ==
  IF PositionKey(fmt, kind) \in DOMAIN cfg
    THEN cfg[PositionKey(fmt, kind)]
    ELSE PositionDefaults(kind)

\* a plausible slip: the y argument stored under "x" and the x argument
\* under "y"
PositionRecord_swap_xy(x, y, scale, loop_count, kind) ==
  IF kind = "video"
    THEN [x |-> y, y |-> x, scale |-> scale, loop_count |-> loop_count]
    ELSE [x |-> y, y |-> x, scale |-> scale]

\* the record set_position stores
PositionRecord(x, y, scale, loop_count, kind) ==
  IF kind = "video"
    THEN [x |-> x, y |-> y, scale |-> scale, loop_count |-> loop_count]
    ELSE [x |-> x, y |-> y, scale |-> scale]

\* a plausible slip: self.config[key].update({...}), the fields of the
\* record written into the dict the key is bound to
DictSet_update_fields(d, key, value) ==
  [ k \in DOMAIN d \cup {key} |->
      IF k # key THEN d[k]
      ELSE IF key \notin DOMAIN d THEN value
      ELSE [ field \in DOMAIN d[key] \cup DOMAIN value |->
               IF field \in DOMAIN value THEN value[field] ELSE d[key][field] ] ]

\* d[key] = value on a dict
DictSet(d, key, value) ==
  [ k \in DOMAIN d \cup {key} |-> IF k = key THEN value ELSE d[k] ]

\* the records a stored file can hold under a position key of kind k
StoredRecords(kind) ==
  { PositionRecord(x, y, s, l, kind) :
      x \in XValues, y \in YValues, s \in ScaleValues, l \in LoopValues }

KindOfKey(key) ==
  IF key \in { PositionKey(f, "video") : f \in Formats } THEN "video" ELSE "static"

\* config.json absent, or holding the text of a mapping on any subset of the
\* position keys
StoredFiles ==
  {Absent} \cup
  UNION { { Present(json_dump(m)) : m \in { n \in [K -> UNION { StoredRecords(k) : k \in Kinds }] :
                                   \A key \in K : n[key] \in StoredRecords(KindOfKey(key)) } } :
          K \in SUBSET PositionKeys }

\* a plausible slip: save_config writes the record just set, not the mapping
set_position_save_record_only(fmt, x, y, scale, loop_count, kind) ==
  /\ config' = DictSet(config, PositionKey(fmt, kind),
                       PositionRecord(x, y, scale, loop_count, kind))
  /\ config_file' = Present(json_dump(
                        DictSet(EmptyDict, PositionKey(fmt, kind),
                                PositionRecord(x, y, scale, loop_count, kind))))

\* a plausible slip: set_position loads config.json again before it assigns
\* the record
set_position_reload_first(fmt, x, y, scale, loop_count, kind) ==
  /\ config' = DictSet(load_config(config_file), PositionKey(fmt, kind),
                       PositionRecord(x, y, scale, loop_count, kind))
  /\ config_file' = Present(json_dump(config'))

\* Compositor.set_position, with save_config writing the whole mapping
set_position(fmt, x, y, scale, loop_count, kind) ==
  /\ config' = DictSet(config, PositionKey(fmt, kind),
                       PositionRecord(x, y, scale, loop_count, kind))
  /\ config_file' = Present(json_dump(config'))

\* the arguments of a set_position call
SetCall(fmt, x, y, scale, loop_count, kind) ==
  [called |-> TRUE, key |-> PositionKey(fmt, kind), kind |-> kind,
   x |-> x, y |-> y, scale |-> scale, loop_count |-> loop_count]

\* set_position called by the UI ("Save Position"), no batch running
SetPosition ==
  /\ pc \in {"idle", "done"}
  /\ set_pc = "idle"
  /\ \E fmt \in Formats, kind \in Kinds, x \in XValues, y \in YValues,
        scale \in ScaleValues, loop_count \in LoopValues :
       /\ set_position(fmt, x, y, scale, loop_count, kind)
       /\ last_set' = SetCall(fmt, x, y, scale, loop_count, kind)
  /\ got' = NoCall
  /\ UNCHANGED <<sets, set_pc, prior, loaded, peer, input_vars, local_vars, hist_vars,
                 call_vars>>

\* set_position called between two batches: one of the four records is moved
SetPositionBetweenBatches ==
  /\ pc = "done"
  /\ set_pc = "idle"
  /\ sets < MaxSets
  /\ \E fmt \in Formats, kind \in Kinds :
       /\ set_position(fmt, 7, 0, 50, 2, kind)
       /\ last_set' = SetCall(fmt, 7, 0, 50, 2, kind)
  /\ sets' = sets + 1
  /\ UNCHANGED <<got, set_pc, prior, loaded, peer, input_vars, local_vars, hist_vars,
                 call_vars>>

\* get_position called by the UI, no batch running
GetPosition ==
  /\ pc \in {"idle", "done"}
  /\ set_pc = "idle"
  /\ \E fmt \in Formats, kind \in Kinds :
       got' = [called |-> TRUE, key |-> PositionKey(fmt, kind), kind |-> kind,
               stored |-> PositionKey(fmt, kind) \in DOMAIN config,
               value |-> get_position(config, fmt, kind)]
  /\ UNCHANGED <<config_file, config, sets, set_pc, last_set, prior, loaded, peer,
                 input_vars, local_vars, hist_vars, call_vars>>

(***************************************************************************)
(* Text overlay configuration: set_text_config keeps its records in the    *)
(* same self.config, under the keys 1x1_text and 9x16_text.                *)
(***************************************************************************)
\* f"{format_type}_text"
TextKey(fmt) == fmt \o "_text"

\* the record set_text_config stores
TextRecord(x, y, text, font_size, color, alignment) ==
  [x |-> x, y |-> y, text |-> text, font_size |-> font_size, color |-> color,
   alignment |-> alignment]

\* Compositor.set_text_config, with save_config writing the whole mapping
set_text_config(fmt, x, y, text, font_size, color, alignment) ==
  /\ config' = DictSet(config, TextKey(fmt),
                       TextRecord(x, y, text, font_size, color, alignment))
  /\ config_file' = Present(json_dump(config'))

\* set_text_config called, no batch running
SetTextConfig ==
  /\ pc \in {"idle", "done"}
  /\ set_pc = "idle"
  /\ \E fmt \in Formats, x \in XValues, y \in YValues, text \in TextValues,
        font_size \in FontSizes, color \in Colors, alignment \in Alignments :
       set_text_config(fmt, x, y, text, font_size, color, alignment)
  /\ UNCHANGED <<got, sets, set_pc, last_set, prior, loaded, peer,
                 input_vars, local_vars, hist_vars, call_vars>>

(***************************************************************************)
(* Two Compositor instances on one base path (two processes of the UI):    *)
(* each holds its own self.config, both write the same config.json.        *)
(***************************************************************************)
\* a second Compositor is constructed: __init__ loads config.json as it is now
PeerConstruct ==
  /\ pc = "idle"
  /\ set_pc = "idle"
  /\ ~peer.constructed
  /\ peer' = [peer EXCEPT !.constructed = TRUE, !.config = load_config(config_file)]
  /\ UNCHANGED <<config_file, config, got, sets, set_pc, last_set, prior, loaded,
                 input_vars, local_vars, hist_vars, call_vars>>

\* set_position of the first instance while a second one may exist
SetPositionBesidePeer ==
  /\ pc = "idle"
  /\ set_pc = "idle"
  /\ peer.sets < MaxPeerSets
  /\ \E fmt \in Formats, kind \in Kinds, scale \in ScaleValues :
       /\ set_position(fmt, 7, 0, scale, 2, kind)
       /\ last_set' = SetCall(fmt, 7, 0, scale, 2, kind)
  /\ peer' = [peer EXCEPT !.wrote_last = FALSE, !.sets = @ + 1]
  /\ UNCHANGED <<got, sets, set_pc, prior, loaded, input_vars, local_vars, hist_vars,
                 call_vars>>

\* set_position of the second instance: the record goes into its own
\* self.config, and save_config writes that mapping to the shared config.json
PeerSetPosition ==
  /\ pc = "idle"
  /\ set_pc = "idle"
  /\ peer.constructed
  /\ peer.sets < MaxPeerSets
  /\ \E fmt \in Formats, kind \in Kinds, scale \in ScaleValues :
       \E cache \in { DictSet(peer.config, PositionKey(fmt, kind),
                              PositionRecord(0, 0, scale, 1, kind)) } :
         /\ peer' = [peer EXCEPT !.config = cache, !.wrote_last = TRUE, !.sets = @ + 1]
         /\ config_file' = Present(json_dump(cache))
  /\ UNCHANGED <<config, got, sets, set_pc, last_set, prior, loaded,
                 input_vars, local_vars, hist_vars, call_vars>>

(***************************************************************************)
(* set_position statement by statement, with the interruptions of a write. *)
(***************************************************************************)
\* a plausible slip: config.json is opened for writing before the record is
\* assigned
SetAssign_open_first ==
  /\ pc \in {"idle", "done"}
  /\ set_pc = "idle"
  /\ sets < MaxSets
  /\ \E fmt \in Formats, kind \in Kinds, x \in XValues, y \in YValues,
        scale \in ScaleValues, loop_count \in LoopValues :
       /\ config' = DictSet(config, PositionKey(fmt, kind),
                            PositionRecord(x, y, scale, loop_count, kind))
       /\ last_set' = SetCall(fmt, x, y, scale, loop_count, kind)
  /\ config_file' = Present(EmptyText)
  /\ prior' = config_file
  /\ sets' = sets + 1
  /\ set_pc' = "save"
  /\ got' = NoCall
  /\ loaded' = [after |-> "start", raised |-> FALSE]
  /\ UNCHANGED <<peer, input_vars, local_vars, hist_vars, call_vars>>

\* set_position up to the call of save_config: self.config[key] = {...};
\* loaded tells how the last start went until the mapping is next changed
SetAssign ==
  /\ pc \in {"idle", "done"}
  /\ set_pc = "idle"
  /\ sets < MaxSets
  /\ \E fmt \in Formats, kind \in Kinds, x \in XValues, y \in YValues,
        scale \in ScaleValues, loop_count \in LoopValues :
       /\ config' = DictSet(config, PositionKey(fmt, kind),
                            PositionRecord(x, y, scale, loop_count, kind))
       /\ last_set' = SetCall(fmt, x, y, scale, loop_count, kind)
  /\ prior' = config_file
  /\ sets' = sets + 1
  /\ set_pc' = "save"
  /\ got' = NoCall
  /\ loaded' = [after |-> "start", raised |-> FALSE]
  /\ UNCHANGED <<config_file, peer, input_vars, local_vars, hist_vars, call_vars>>

\* save_config: open(self.config_path, "w") creates the file or cuts it to
\* length zero
SaveOpen ==
  /\ set_pc = "save"
  /\ config_file' = Present(EmptyText)
  /\ set_pc' = "dump"
  /\ UNCHANGED <<config, got, sets, last_set, prior, loaded, peer,
                 input_vars, local_vars, hist_vars, call_vars>>

\* json.dump writes the text piece by piece: the next member reaches the file
SaveDump ==
  /\ set_pc = "dump"
  /\ Len(config_file.content.members) < Len(json_dump(config).members)
  /\ config_file' =
       Present([members |-> Append(config_file.content.members,
                                   json_dump(config).members[
                                     Len(config_file.content.members) + 1]),
                closed |-> FALSE])
  /\ UNCHANGED <<config, got, sets, set_pc, last_set, prior, loaded, peer,
                 input_vars, local_vars, hist_vars, call_vars>>

\* the closing brace is written, the with block closes the file and
\* set_position returns
SaveClose ==
  /\ set_pc = "dump"
  /\ Len(config_file.content.members) = Len(json_dump(config).members)
  /\ config_file' = Present([config_file.content EXCEPT !.closed = TRUE])
  /\ set_pc' = "idle"
  /\ UNCHANGED <<config, got, sets, last_set, prior, loaded, peer,
                 input_vars, local_vars, hist_vars, call_vars>>

\* a write raises OSError (disk full, device error): the with block closes
\* the file as it is and the error leaves set_position; the process goes on
\* with the new mapping in memory
WriteFault ==
  /\ set_pc = "dump"
  /\ set_pc' = "idle"
  /\ UNCHANGED <<config_file, config, got, sets, last_set, prior, loaded, peer,
                 input_vars, local_vars, hist_vars, call_vars>>

\* the process is killed inside set_position: before the file is opened, or
\* between the open and the close
Crash ==
  /\ set_pc \in {"save", "dump"}
  /\ set_pc' = IF set_pc = "save" THEN "crashed_before_open" ELSE "crashed_in_write"
  /\ UNCHANGED <<config_file, config, got, sets, last_set, prior, loaded, peer,
                 input_vars, local_vars, hist_vars, call_vars>>

\* the application is started again: Compositor.__init__ loads config.json;
\* a text json.load cannot read ends the start-up
Restart ==
  /\ set_pc \in {"crashed_before_open", "crashed_in_write"}
  /\ pc \in {"idle", "done"}
  /\ IF load_config(config_file) = JSONDecodeError
       THEN /\ loaded' = [after |-> set_pc, raised |-> TRUE]
            /\ config' = EmptyDict
            /\ set_pc' = "dead"
       ELSE /\ loaded' = [after |-> set_pc, raised |-> FALSE]
            /\ config' = load_config(config_file)
            /\ set_pc' = "idle"
  /\ UNCHANGED <<config_file, got, sets, last_set, prior, peer,
                 input_vars, local_vars, hist_vars, call_vars>>

(***************************************************************************)
(* The compositors: composite_static, composite_video_overlay,             *)
(* _get_video_duration, extract_first_frame, and create_preview of         *)
(* src/ui/preview.py.                                                      *)
(*                                                                         *)
(* An image is known by its size; the pixel (i, j) of a decoded file is    *)
(* the triple <<image, i, j>>, i and j counted from 0.  Overlays are       *)
(* opaque: the paste mask lets every overlay pixel through.  A duration is *)
(* held in hundredths of a second (500 stands for the float 5.0).          *)
(* The environment of a call says what each external step does: decoding   *)
(* an image file, creating a directory, writing the result, running        *)
(* ffprobe and ffmpeg, creating a temporary file.                          *)
(***************************************************************************)
\* the environment in which every step works
EnvOk ==
  [hero_open |-> "ok", overlay_open |-> "ok", mkdir |-> "ok", save |-> "ok",
   probe |-> "ok", encode |-> "ok", tmp |-> "ok", frame_open |-> "ok"]

\* no image, no ffmpeg command
NoImage == [width |-> 0, height |-> 0, pasted |-> FALSE,
            box |-> <<0, 0, 0, 0>>, src |-> <<0, 0>>]
NoCmd == [program |-> "", stream_loop |-> "", t |-> "", scale_filter |-> "",
          overlay |-> "", ss |-> ""]

\* Image.open(path).convert("RGBA") of a file of the given size
Decoded(size) ==
  [width |-> size[1], height |-> size[2], pasted |-> FALSE,
   box |-> <<0, 0, 0, 0>>, src |-> <<0, 0>>]

\* position.get(field, default)
PosGet(position, field, default) ==
  IF field \in DOMAIN position THEN position[field] ELSE default

\* int(width * scale), the scale in hundredths
Scaled(length, scale) == (length * scale) \div 100

\* overlay.resize(new_size, LANCZOS) when scale != 1.0; PIL refuses a size
\* with a zero side (ValueError)
Resized(overlay, position) ==
  IF PosGet(position, "scale", 100) # 100
    THEN [overlay EXCEPT !.width = Scaled(overlay.width, position["scale"]),
                         !.height = Scaled(overlay.height, position["scale"])]
    ELSE overlay
ResizeRaises(overlay, position) ==
  /\ PosGet(position, "scale", 100) # 100
  /\ \/ Scaled(overlay.width, position["scale"]) <= 0
     \/ Scaled(overlay.height, position["scale"]) <= 0

\* a plausible slip: the part of the overlay that leaves the hero is not cut
\* off on the right and at the bottom
Paste_no_clip(result, overlay, x, y) ==
  LET sx0 == IF x < 0 THEN 0 - x ELSE 0
      sy0 == IF y < 0 THEN 0 - y ELSE 0
      dx0 == IF x < 0 THEN 0 ELSE x
      dy0 == IF y < 0 THEN 0 ELSE y
      xsize == IF x < 0 THEN overlay.width + x ELSE overlay.width
      ysize == IF y < 0 THEN overlay.height + y ELSE overlay.height
  IN IF xsize <= 0 \/ ysize <= 0
       THEN result
       ELSE [result EXCEPT !.pasted = TRUE,
                           !.width = IF dx0 + xsize > @ THEN dx0 + xsize ELSE @,
                           !.height = IF dy0 + ysize > @ THEN dy0 + ysize ELSE @,
                           !.box = <<dx0, dy0, dx0 + xsize, dy0 + ysize>>,
                           !.src = <<sx0, sy0>>]

\* result.paste(overlay, (x, y), overlay): the box (x, y, x + w, y + h) is
\* cut to the result image, and the overlay region that starts at src is
\* copied into it; an empty region copies nothing
Paste(result, overlay, x, y) ==
  LET sx0 == IF x < 0 THEN 0 - x ELSE 0
      sy0 == IF y < 0 THEN 0 - y ELSE 0
      dx0 == IF x < 0 THEN 0 ELSE x
      dy0 == IF y < 0 THEN 0 ELSE y
      xs == IF x < 0 THEN overlay.width + x ELSE overlay.width
      ys == IF y < 0 THEN overlay.height + y ELSE overlay.height
      xsize == IF dx0 + xs > result.width THEN result.width - dx0 ELSE xs
      ysize == IF dy0 + ys > result.height THEN result.height - dy0 ELSE ys
  IN IF xsize <= 0 \/ ysize <= 0
       THEN result
       ELSE [result EXCEPT !.pasted = TRUE,
                           !.box = <<dx0, dy0, dx0 + xsize, dy0 + ysize>>,
                           !.src = <<sx0, sy0>>]

\* the pixel (px, py) of a composited image: the overlay pixel copied there,
\* or the hero pixel
PixelAt(image, px, py) ==
  IF /\ image.pasted
     /\ image.box[1] <= px /\ px < image.box[3]
     /\ image.box[2] <= py /\ py < image.box[4]
    THEN <<"overlay", px - image.box[1] + image.src[1], py - image.box[2] + image.src[2]>>
    ELSE <<"hero", px, py>>

\* the outcome of a compositor call: what it returned (ret is TRUE for True
\* and for an image, FALSE for False and for None), whether it raised, the
\* image it wrote or returned, the ffmpeg command it ran, and the number of
\* temporary files it left behind
Outcome(ret, raised, image, cmd, leaked) ==
  [ret |-> ret, raised |-> raised, image |-> image, cmd |-> cmd, leaked |-> leaked]

\* "return False" out of the except clause
ReturnFalse == Outcome(FALSE, FALSE, NoImage, NoCmd, 0)
\* an exception that leaves the function
Raise == Outcome(FALSE, TRUE, NoImage, NoCmd, 0)

\* a plausible slip: the output directory is created before the try block
composite_static_mkdir_before_try(hero, overlay, position, env) ==
  IF env.mkdir # "ok" THEN Raise
  ELSE IF env.hero_open # "ok" THEN ReturnFalse
  ELSE IF env.overlay_open # "ok" THEN ReturnFalse
  ELSE IF ResizeRaises(Decoded(overlay), position) THEN ReturnFalse
  ELSE IF "x" \notin DOMAIN position \/ "y" \notin DOMAIN position THEN ReturnFalse
  ELSE IF env.save # "ok" THEN ReturnFalse
  ELSE Outcome(TRUE, FALSE,
               Paste(Decoded(hero), Resized(Decoded(overlay), position),
                     position["x"], position["y"]),
               NoCmd, 0)

\* Compositor.composite_static on a hero and an overlay file of the given
\* sizes: every exception of the body is caught and turned into False
composite_static(hero, overlay, position, env) ==
  IF env.hero_open # "ok" THEN ReturnFalse
  ELSE IF env.overlay_open # "ok" THEN ReturnFalse
  ELSE IF ResizeRaises(Decoded(overlay), position) THEN ReturnFalse
  ELSE IF "x" \notin DOMAIN position \/ "y" \notin DOMAIN position THEN ReturnFalse
  ELSE IF env.mkdir # "ok" THEN ReturnFalse
  ELSE IF env.save # "ok" THEN ReturnFalse
  ELSE Outcome(TRUE, FALSE,
               Paste(Decoded(hero), Resized(Decoded(overlay), position),
                     position["x"], position["y"]),
               NoCmd, 0)

\* the durations an overlay video can have
Durations == {120, 250}

\* what ffprobe prints for a file of duration d: six decimals
ProbeRepr(d) ==
  IntRepr(d \div 100) \o "." \o Digits[((d % 100) \div 10) + 1]
    \o Digits[(d % 10) + 1] \o "0000"

\* the durations an overlay video can have, each with the text ffprobe
\* prints for it
ProbeTexts == { [duration |-> s, text |-> ProbeRepr(s)] : s \in Durations }

\* result.stdout of the ffprobe run: the duration, "N/A" when the container
\* gives none, nothing when ffprobe exits non-zero
ProbeStdout(d, probe) ==
  IF probe = "ok" THEN (CHOOSE p \in ProbeTexts : p.duration = d).text
  ELSE IF probe = "unparsable" THEN "N/A"
  ELSE ""

\* a plausible slip: no "except" around float(), the ValueError leaves
_get_video_duration_no_fallback(d, env) ==
  IF env.probe = "missing" THEN [raised |-> TRUE, value |-> 0]
  ELSE IF \E p \in ProbeTexts : p.text = ProbeStdout(d, env.probe)
    THEN [raised |-> FALSE,
          value |-> (CHOOSE p \in ProbeTexts : p.text = ProbeStdout(d, env.probe)).duration]
    ELSE [raised |-> TRUE, value |-> 0]

\* Compositor._get_video_duration on a file of duration d: subprocess.run
\* raises when the ffprobe binary is missing; float(stdout) is tried and 5.0
\* is the fallback, the exit code is not looked at
_get_video_duration(d, env) ==
  IF env.probe = "missing" THEN [raised |-> TRUE, value |-> 0]
  ELSE IF \E p \in ProbeTexts : p.text = ProbeStdout(d, env.probe)
    THEN [raised |-> FALSE,
          value |-> (CHOOSE p \in ProbeTexts : p.text = ProbeStdout(d, env.probe)).duration]
    ELSE [raised |-> FALSE, value |-> 500]

\* the duration argument: None, or a number of hundredths of a second
NoDuration == [given |-> FALSE, value |-> 0]
Duration(d) == [given |-> TRUE, value |-> d]

\* the arguments of the ffmpeg run of composite_video_overlay
VideoCmd(x, y, scale, loop_count, final_duration) ==
  [program |-> "ffmpeg",
   stream_loop |-> IntRepr(loop_count - 1),
   t |-> FloatRepr(final_duration),
   scale_filter |-> IF scale # 100
                      THEN "scale=iw*" \o FloatRepr(scale) \o ":ih*" \o FloatRepr(scale)
                      ELSE "null",
   overlay |-> "overlay=" \o IntRepr(x) \o ":" \o IntRepr(y) \o ":shortest=1",
   ss |-> ""]

\* a plausible slip: "-stream_loop" given the loop count itself
composite_video_overlay_loop_off_by_one(d, position, duration, env) ==
  LET base_duration == IF duration.given THEN [raised |-> FALSE, value |-> duration.value]
                       ELSE _get_video_duration(d, env)
      loop_count == PosGet(position, "loop_count", 1)
      final_duration == base_duration.value * loop_count
  IN IF base_duration.raised THEN ReturnFalse
     ELSE IF "x" \notin DOMAIN position \/ "y" \notin DOMAIN position THEN ReturnFalse
     ELSE IF env.mkdir # "ok" THEN ReturnFalse
     ELSE IF env.encode = "missing" THEN ReturnFalse
     ELSE Outcome(env.encode = "ok", FALSE, NoImage,
                  [VideoCmd(position["x"], position["y"], PosGet(position, "scale", 100),
                            loop_count, final_duration)
                     EXCEPT !.stream_loop = IntRepr(loop_count)], 0)

\* Compositor.composite_video_overlay on an overlay file of duration d:
\* False on any exception of the body and on a non-zero exit code of ffmpeg
composite_video_overlay(d, position, duration, env) ==
  LET base_duration == IF duration.given THEN [raised |-> FALSE, value |-> duration.value]
                       ELSE _get_video_duration(d, env)
      loop_count == PosGet(position, "loop_count", 1)
      final_duration == base_duration.value * loop_count
  IN IF base_duration.raised THEN ReturnFalse
     ELSE IF "x" \notin DOMAIN position \/ "y" \notin DOMAIN position THEN ReturnFalse
     ELSE IF env.mkdir # "ok" THEN ReturnFalse
     ELSE IF env.encode = "missing" THEN ReturnFalse
     ELSE Outcome(env.encode = "ok", FALSE, NoImage,
                  VideoCmd(position["x"], position["y"], PosGet(position, "scale", 100),
                           loop_count, final_duration), 0)

\* the ffmpeg run of extract_first_frame: "-ss" only for a later frame
FrameCmd(timestamp) ==
  [program |-> "ffmpeg", stream_loop |-> "", t |-> "", scale_filter |-> "",
   overlay |-> "", ss |-> timestamp]

\* a plausible slip: no check of the exit code, the frame file is opened
\* whatever ffmpeg did
extract_first_frame_ignore_exit(d, frame, frame_position, env) ==
  LET duration == IF frame_position > 0 THEN _get_video_duration(d, env)
                  ELSE [raised |-> FALSE, value |-> 0]
      cmd == FrameCmd(IF frame_position > 0
                        THEN FloatRepr((duration.value * frame_position) \div 100)
                        ELSE "")
  IN IF env.tmp # "ok" THEN Outcome(FALSE, FALSE, NoImage, NoCmd, 0)
     ELSE IF duration.raised THEN Outcome(FALSE, FALSE, NoImage, NoCmd, 1)
     ELSE IF env.encode = "missing" THEN Outcome(FALSE, FALSE, NoImage, NoCmd, 1)
     ELSE IF env.frame_open # "ok" THEN Outcome(FALSE, FALSE, NoImage, cmd, 1)
     ELSE Outcome(TRUE, FALSE, Decoded(frame), cmd, 0)

\* Compositor.extract_first_frame on a video of duration d whose frames have
\* the size frame: the temporary file is created first and unlinked on the
\* success path only; every exception of the body is turned into None
extract_first_frame(d, frame, frame_position, env) ==
  LET duration == IF frame_position > 0 THEN _get_video_duration(d, env)
                  ELSE [raised |-> FALSE, value |-> 0]
      cmd == FrameCmd(IF frame_position > 0
                        THEN FloatRepr((duration.value * frame_position) \div 100)
                        ELSE "")
  IN IF env.tmp # "ok" THEN Outcome(FALSE, FALSE, NoImage, NoCmd, 0)
     ELSE IF duration.raised THEN Outcome(FALSE, FALSE, NoImage, NoCmd, 1)
     ELSE IF env.encode = "missing" THEN Outcome(FALSE, FALSE, NoImage, NoCmd, 1)
     ELSE IF env.encode # "ok" THEN Outcome(FALSE, FALSE, NoImage, cmd, 1)
     ELSE IF env.frame_open # "ok" THEN Outcome(FALSE, FALSE, NoImage, cmd, 1)
     ELSE Outcome(TRUE, FALSE, Decoded(frame), cmd, 0)

\* overlay_path.suffix.lower()
Lower(suffix) ==
  IF suffix = ".MOV" THEN ".mov" ELSE IF suffix = ".MP4" THEN ".mp4" ELSE suffix

\* the last statements of create_preview: scale the overlay, paste it on a
\* copy of the hero; nothing catches what they raise
PreviewComposite(hero, overlay, position, leaked) ==
  IF ResizeRaises(overlay, position) THEN [Raise EXCEPT !.leaked = leaked]
  ELSE IF "x" \notin DOMAIN position \/ "y" \notin DOMAIN position
    THEN [Raise EXCEPT !.leaked = leaked]
  ELSE Outcome(TRUE, FALSE,
               Paste(Decoded(hero), Resized(overlay, position),
                     position["x"], position["y"]),
               NoCmd, leaked)

\* create_preview of src/ui/preview.py; overlay is the overlay file: its
\* suffix, the size of its image or frames, its duration
create_preview(hero, overlay, position, frame_position, compositor, env) ==
  IF env.hero_open # "ok" THEN Raise
  ELSE IF Lower(overlay.suffix) \in {".mov", ".mp4"}
    THEN IF ~compositor THEN Outcome(TRUE, FALSE, Decoded(hero), NoCmd, 0)
         ELSE LET frame == extract_first_frame(overlay.duration, overlay.size,
                                               frame_position, env)
              IN IF ~frame.ret
                   THEN Outcome(TRUE, FALSE, Decoded(hero), frame.cmd, frame.leaked)
                   ELSE [PreviewComposite(hero, frame.image, position, frame.leaked)
                           EXCEPT !.cmd = frame.cmd]
  ELSE IF env.overlay_open # "ok" THEN Raise
  ELSE PreviewComposite(hero, Decoded(overlay.size), position, 0)

\* an overlay file: its suffix, the size of its image or of its frames, and
\* its duration (0 for an image)
OverlayFile(suffix, size, duration) ==
  [suffix |-> suffix, size |-> size, duration |-> duration]

\* the record of a compositor call
Run(fn, hero, overlay, position, duration, frame_position, compositor, env, job, out) ==
  [called |-> TRUE, fn |-> fn, hero |-> hero, overlay |-> overlay,
   position |-> position, duration |-> duration, frame_position |-> frame_position,
   compositor |-> compositor, env |-> env, job |-> job, out |-> out]
NoRun ==
  [called |-> FALSE, fn |-> "", hero |-> <<0, 0>>, overlay |-> OverlayFile("", <<0, 0>>, 0),
   position |-> EmptyDict, duration |-> NoDuration, frame_position |-> 0,
   compositor |-> FALSE, env |-> EnvOk, job |-> 0, out |-> ReturnFalse]

\* the environments of a call, by the steps the function goes through
StaticEnvs ==
  { [EnvOk EXCEPT !.hero_open = a, !.overlay_open = b, !.mkdir = c, !.save = d] :
      a \in {"ok", "fail"}, b \in {"ok", "fail"}, c \in {"ok", "fail"}, d \in {"ok", "fail"} }
VideoEnvs ==
  { [EnvOk EXCEPT !.probe = a, !.mkdir = b, !.encode = c] :
      a \in {"ok", "nonzero", "unparsable", "missing"}, b \in {"ok", "fail"},
      c \in {"ok", "nonzero", "missing"} }
FrameEnvs ==
  { [EnvOk EXCEPT !.tmp = a, !.probe = b, !.encode = c, !.frame_open = d] :
      a \in {"ok", "fail"}, b \in {"ok", "nonzero", "unparsable", "missing"},
      c \in {"ok", "nonzero", "missing"}, d \in {"ok", "fail"} }
PreviewEnvs ==
  { EnvOk, [EnvOk EXCEPT !.hero_open = "fail"], [EnvOk EXCEPT !.overlay_open = "fail"],
    [EnvOk EXCEPT !.encode = "nonzero"], [EnvOk EXCEPT !.encode = "missing"],
    [EnvOk EXCEPT !.frame_open = "fail"], [EnvOk EXCEPT !.tmp = "fail"],
    [EnvOk EXCEPT !.probe = "missing"] }

\* the calls of composite_static: small images at offsets on every side of
\* the hero, a 1000 x 1000 hero with a 200 x 200 overlay, and every
\* combination of faults
StaticCalls ==
  { [hero |-> <<3, 2>>, overlay |-> o, position |-> [x |-> x, y |-> y, scale |-> s],
     env |-> EnvOk] :
      o \in {<<2, 2>>, <<4, 1>>}, x \in {-3, -1, 0, 2, 5}, y \in {-1, 0, 1, 4},
      s \in {50, 100, 200} }
  \cup
  { [hero |-> <<1000, 1000>>, overlay |-> <<200, 200>>,
     position |-> [x |-> x, y |-> y, scale |-> s], env |-> EnvOk] :
      x \in {-100, 900}, y \in {-150, 900}, s \in {100, 200} }
  \cup
  { [hero |-> <<3, 2>>, overlay |-> <<2, 2>>, position |-> p, env |-> e] :
      p \in { [x |-> 0, y |-> 0, scale |-> 100], [y |-> 0, scale |-> 100],
              [x |-> 1, y |-> 1], [x |-> 0, y |-> 0, scale |-> 25] },
      e \in StaticEnvs }

\* the calls of composite_video_overlay
VideoCalls ==
  { [d |-> d, position |-> p, duration |-> t, env |-> EnvOk] :
      d \in Durations,
      p \in { [x |-> 0, y |-> -2, scale |-> s, loop_count |-> k] :
                s \in {100, 50}, k \in {1, 2, 3} }
            \cup { [x |-> 7, y |-> 0, scale |-> 100] },
      t \in {NoDuration, Duration(300)} }
  \cup
  { [d |-> 250, position |-> p, duration |-> t, env |-> e] :
      p \in { [x |-> 0, y |-> 0, scale |-> 100, loop_count |-> 2],
              [y |-> 0, scale |-> 100, loop_count |-> 1] },
      t \in {NoDuration, Duration(300)}, e \in VideoEnvs }

\* the calls of extract_first_frame
FrameCalls ==
  { [d |-> 250, frame |-> <<2, 2>>, frame_position |-> fp, env |-> e] :
      fp \in {0, 50}, e \in FrameEnvs }

\* the calls of create_preview
PreviewCalls ==
  { [hero |-> <<3, 2>>, overlay |-> o, position |-> p, frame_position |-> fp,
     compositor |-> c, env |-> e] :
      o \in { OverlayFile(".png", <<2, 2>>, 0), OverlayFile(".mov", <<2, 2>>, 250),
              OverlayFile(".MP4", <<4, 1>>, 120) },
      p \in { [x |-> 2, y |-> 1, scale |-> 100], [y |-> 0, scale |-> 100] },
      fp \in {0, 50}, c \in BOOLEAN, e \in PreviewEnvs }

\* composite_static is called
CompositeStatic ==
  /\ pc = "idle"
  /\ \E c \in StaticCalls :
       run' = Run("composite_static", c.hero, OverlayFile(".png", c.overlay, 0),
                  c.position, NoDuration, 0, TRUE, c.env, 0,
                  composite_static(c.hero, c.overlay, c.position, c.env))
  /\ UNCHANGED <<store_vars, input_vars, local_vars, hist_vars, record_runs, record_outcomes,
                 tmp_files>>

\* composite_video_overlay is called
CompositeVideoOverlay ==
  /\ pc = "idle"
  /\ \E c \in VideoCalls :
       run' = Run("composite_video_overlay", <<3, 2>>, OverlayFile(".mov", <<2, 2>>, c.d),
                  c.position, c.duration, 0, TRUE, c.env, 0,
                  composite_video_overlay(c.d, c.position, c.duration, c.env))
  /\ UNCHANGED <<store_vars, input_vars, local_vars, hist_vars, record_runs, record_outcomes,
                 tmp_files>>

\* extract_first_frame is called
ExtractFirstFrame ==
  /\ pc = "idle"
  /\ tmp_files < MaxTmp
  /\ \E c \in FrameCalls :
       LET out == extract_first_frame(c.d, c.frame, c.frame_position, c.env)
       IN /\ run' = Run("extract_first_frame", <<0, 0>>, OverlayFile(".mov", c.frame, c.d),
                        EmptyDict, NoDuration, c.frame_position, TRUE, c.env, 0, out)
          /\ tmp_files' = tmp_files + out.leaked
  /\ UNCHANGED <<store_vars, input_vars, local_vars, hist_vars, record_runs,
                 record_outcomes>>

\* create_preview is called
CreatePreview ==
  /\ pc = "idle"
  /\ tmp_files < MaxTmp
  /\ \E c \in PreviewCalls :
       LET out == create_preview(c.hero, c.overlay, c.position, c.frame_position,
                                 c.compositor, c.env)
       IN /\ run' = Run("create_preview", c.hero, c.overlay, c.position, NoDuration,
                        c.frame_position, c.compositor, c.env, 0, out)
          /\ tmp_files' = tmp_files + out.leaked
  /\ UNCHANGED <<store_vars, input_vars, local_vars, hist_vars, record_runs,
                 record_outcomes>>

(***************************************************************************)
(* render_all: task expansion (the four nested loops).                     *)
(***************************************************************************)
\* Compositor.base_path
base_path == <<"app">>

\* f"{hero.stem}_{overlay.stem}.png" and f"{hero.stem}_{overlay.stem}.mp4"
OutputName(hero, overlay, ext) == hero.stem \o "_" \o overlay.stem \o ext

\* str(output_path)
RECURSIVE Str(_)
Str(path) ==
  IF Len(path) = 0 THEN ""
  ELSE IF Len(path) = 1 THEN path[1]
  ELSE path[1] \o "/" \o Str(Tail(path))

\* output_path.name
PathName(path) == path[Len(path)]

\* a plausible slip: an output that exists already is not overwritten, the
\* new one gets another name
OutputPath_keep_existing(fmt, subfolder, output_name) ==
  LET path == IF subfolder # ""
                THEN base_path \o <<"outputs", fmt, subfolder, output_name>>
                ELSE base_path \o <<"outputs", fmt, output_name>>
  IN IF Str(path) \in DOMAIN out_files
       THEN SubSeq(path, 1, Len(path) - 1) \o <<"copy_" \o output_name>>
       ELSE path

\* self.base_path / "outputs" / format_type [/ output_subfolder] / output_name
OutputPath(fmt, subfolder, output_name) ==
  IF subfolder # ""
    THEN base_path \o <<"outputs", fmt, subfolder, output_name>>
    ELSE base_path \o <<"outputs", fmt, output_name>>

\* the tuple appended to all_tasks
Task(task_type, hero, overlay, output_path, pos, fmt) ==
  [task_type |-> task_type, hero |-> hero, overlay |-> overlay,
   output_path |-> output_path, pos |-> pos, fmt |-> fmt]

\* the lists a call of render_all can be given: at most maxfiles files in all
ListsOfLen(S, n) == [1..n -> S]

\* a plausible slip: results is kept from one call to the next
RenderAll_keep_results(h, o, subfolder, callback) ==
  /\ heroes' = h
  /\ overlays' = o
  /\ output_subfolder' = subfolder
  /\ progress_callback' = callback
  /\ results' = results
  /\ all_tasks' = <<>>
  /\ format_type' = "1x1"
  /\ hero_idx' = 1
  /\ overlay_idx' = 1
  /\ total' = 0
  /\ i' = 0
  /\ pc' = "hero"
  /\ task_src' = <<>>
  /\ dispatched' = <<>>
  /\ returned' = <<>>
  /\ calls' = <<>>
  /\ UNCHANGED <<store_vars, call_vars, out_files, prev>>

\* render_all is called: results and all_tasks are initialised and the 1x1
\* hero loop starts
RenderAll(h, o, subfolder, callback) ==
  /\ heroes' = h
  /\ overlays' = o
  /\ output_subfolder' = subfolder
  /\ progress_callback' = callback
  /\ results' = [success |-> 0, failed |-> 0, outputs |-> <<>>]
  /\ all_tasks' = <<>>
  /\ format_type' = "1x1"
  /\ hero_idx' = 1
  /\ overlay_idx' = 1
  /\ total' = 0
  /\ i' = 0
  /\ pc' = "hero"
  /\ task_src' = <<>>
  /\ dispatched' = <<>>
  /\ returned' = <<>>
  /\ calls' = <<>>
  /\ UNCHANGED <<store_vars, call_vars, out_files, prev>>

\* a first call, with any six lists holding at most maxfiles files in all
RenderFirst(maxfiles) ==
  /\ pc = "idle"
  /\ ~prev.ran
  /\ \E n1 \in 0..maxfiles : \E n2 \in 0..(maxfiles - n1) :
     \E n3 \in 0..(maxfiles - n1 - n2) : \E n4 \in 0..(maxfiles - n1 - n2 - n3) :
     \E n5 \in 0..(maxfiles - n1 - n2 - n3 - n4) :
     \E n6 \in 0..(maxfiles - n1 - n2 - n3 - n4 - n5) :
     \E h1 \in ListsOfLen(HeroFiles("1x1"), n1), h2 \in ListsOfLen(HeroFiles("9x16"), n2),
        s1 \in ListsOfLen(OverlayFiles("1x1", "static"), n3),
        s2 \in ListsOfLen(OverlayFiles("9x16", "static"), n4),
        v1 \in ListsOfLen(OverlayFiles("1x1", "video"), n5),
        v2 \in ListsOfLen(OverlayFiles("9x16", "video"), n6),
        subfolder \in Subfolders, callback \in BOOLEAN :
       RenderAll([f \in Formats |-> IF f = "1x1" THEN h1 ELSE h2],
                 [f \in Formats |-> [k \in Kinds |->
                    IF f = "1x1" THEN (IF k = "static" THEN s1 ELSE v1)
                                 ELSE (IF k = "static" THEN s2 ELSE v2)]],
                 subfolder, callback)

Batch == RenderFirst(MaxFiles)

SmallBatch == RenderFirst(MaxFilesRerun)

\* render_all is called again with the lists of the previous call
RenderAgain ==
  /\ pc = "done"
  /\ RenderAll(heroes, overlays, output_subfolder, progress_callback)

\* for hero in heroes_<format_type>: the next hero is taken
NextHero ==
  /\ pc = "hero"
  /\ hero_idx <= Len(heroes[format_type])
  /\ overlay_idx' = 1
  /\ pc' = "static"
  /\ UNCHANGED <<store_vars, call_vars, input_vars, format_type, hero_idx, all_tasks, total, i,
                 results, hist_vars>>

\* the 1x1 hero loop is exhausted: the 9x16 hero loop starts
NextFormat ==
  /\ pc = "hero"
  /\ hero_idx > Len(heroes[format_type])
  /\ format_type = "1x1"
  /\ format_type' = "9x16"
  /\ hero_idx' = 1
  /\ UNCHANGED <<store_vars, call_vars, input_vars, pc, overlay_idx, all_tasks, total, i,
                 results, hist_vars>>

\* a plausible slip: the static jobs of both formats given the 1x1 record
StaticTask_position_of_1x1 ==
  Task("static", heroes[format_type][hero_idx],
       overlays[format_type]["static"][overlay_idx],
       OutputPath(format_type, output_subfolder,
                  OutputName(heroes[format_type][hero_idx],
                             overlays[format_type]["static"][overlay_idx], ".png")),
       get_position(config, "1x1", "static"), format_type)

\* the static job of the current hero and the overlay at overlay_idx
StaticTask ==
  Task("static", heroes[format_type][hero_idx],
       overlays[format_type]["static"][overlay_idx],
       OutputPath(format_type, output_subfolder,
                  OutputName(heroes[format_type][hero_idx],
                             overlays[format_type]["static"][overlay_idx], ".png")),
       get_position(config, format_type, "static"), format_type)

\* a plausible slip: a job whose output path is already planned is dropped
AppendStatic_dedup ==
  /\ pc = "static"
  /\ overlay_idx <= Len(overlays[format_type]["static"])
  /\ IF \E p \in 1..Len(all_tasks) : all_tasks[p].output_path = StaticTask.output_path
       THEN UNCHANGED <<all_tasks, task_src>>
       ELSE /\ all_tasks' = Append(all_tasks, StaticTask)
            /\ task_src' = Append(task_src, [hero |-> hero_idx, overlay |-> overlay_idx])
  /\ overlay_idx' = overlay_idx + 1
  /\ UNCHANGED <<store_vars, call_vars, input_vars, pc, format_type, hero_idx, total, i, results,
                 out_files, dispatched, returned, calls, prev>>

\* a plausible slip: self.config.setdefault(key, defaults) in get_position,
\* which stores the default of a key that is not stored
AppendStatic_setdefault ==
  /\ pc = "static"
  /\ overlay_idx <= Len(overlays[format_type]["static"])
  /\ all_tasks' = Append(all_tasks, StaticTask)
  /\ task_src' = Append(task_src, [hero |-> hero_idx, overlay |-> overlay_idx])
  /\ overlay_idx' = overlay_idx + 1
  /\ config' = DictSet(config, PositionKey(format_type, "static"),
                       get_position(config, format_type, "static"))
  /\ UNCHANGED <<config_file, got, sets, set_pc, last_set, prior, loaded, peer,
                 call_vars, input_vars, pc, format_type, hero_idx, total, i, results,
                 out_files, dispatched, returned, calls, prev>>

\* for overlay in overlays_static_<format_type>: one static job is appended
AppendStatic ==
  /\ pc = "static"
  /\ overlay_idx <= Len(overlays[format_type]["static"])
  /\ all_tasks' = Append(all_tasks, StaticTask)
  /\ task_src' = Append(task_src, [hero |-> hero_idx, overlay |-> overlay_idx])
  /\ overlay_idx' = overlay_idx + 1
  /\ UNCHANGED <<store_vars, call_vars, input_vars, pc, format_type, hero_idx, total, i, results,
                 out_files, dispatched, returned, calls, prev>>

\* the static overlay loop is exhausted: the video overlay loop starts
EndStatic ==
  /\ pc = "static"
  /\ overlay_idx > Len(overlays[format_type]["static"])
  /\ overlay_idx' = 1
  /\ pc' = "video"
  /\ UNCHANGED <<store_vars, call_vars, input_vars, format_type, hero_idx, all_tasks, total, i,
                 results, hist_vars>>

\* a plausible slip: the video branch copied from the static one, ".png" kept
VideoTask_png ==
  Task("video", heroes[format_type][hero_idx],
       overlays[format_type]["video"][overlay_idx],
       OutputPath(format_type, output_subfolder,
                  OutputName(heroes[format_type][hero_idx],
                             overlays[format_type]["video"][overlay_idx], ".png")),
       get_position(config, format_type, "video"), format_type)

\* the video job of the current hero and the overlay at overlay_idx
VideoTask ==
  Task("video", heroes[format_type][hero_idx],
       overlays[format_type]["video"][overlay_idx],
       OutputPath(format_type, output_subfolder,
                  OutputName(heroes[format_type][hero_idx],
                             overlays[format_type]["video"][overlay_idx], ".mp4")),
       get_position(config, format_type, "video"), format_type)

\* a plausible slip: all_tasks.insert(0, ...) in place of all_tasks.append(...)
AppendVideo_insert_front ==
  /\ pc = "video"
  /\ overlay_idx <= Len(overlays[format_type]["video"])
  /\ all_tasks' = <<VideoTask>> \o all_tasks
  /\ task_src' = <<[hero |-> hero_idx, overlay |-> overlay_idx]>> \o task_src
  /\ overlay_idx' = overlay_idx + 1
  /\ UNCHANGED <<store_vars, call_vars, input_vars, pc, format_type, hero_idx, total, i, results,
                 out_files, dispatched, returned, calls, prev>>

\* for overlay in overlays_video_<format_type>: one video job is appended
AppendVideo ==
  /\ pc = "video"
  /\ overlay_idx <= Len(overlays[format_type]["video"])
  /\ all_tasks' = Append(all_tasks, VideoTask)
  /\ task_src' = Append(task_src, [hero |-> hero_idx, overlay |-> overlay_idx])
  /\ overlay_idx' = overlay_idx + 1
  /\ UNCHANGED <<store_vars, call_vars, input_vars, pc, format_type, hero_idx, total, i, results,
                 out_files, dispatched, returned, calls, prev>>

\* the video overlay loop is exhausted: back to the hero loop
EndVideo ==
  /\ pc = "video"
  /\ overlay_idx > Len(overlays[format_type]["video"])
  /\ hero_idx' = hero_idx + 1
  /\ pc' = "hero"
  /\ UNCHANGED <<store_vars, call_vars, input_vars, format_type, overlay_idx, all_tasks, total, i,
                 results, hist_vars>>

\* a plausible slip: the kinds grouped per format, all static jobs of a
\* format before all its video jobs
EndExpansion_group_kinds ==
  /\ pc = "hero"
  /\ hero_idx > Len(heroes[format_type])
  /\ format_type = "9x16"
  /\ LET jobs == [p \in 1..Len(all_tasks) |-> [task |-> all_tasks[p], src |-> task_src[p]]]
         S1(j) == j.task.fmt = "1x1" /\ j.task.task_type = "static"
         V1(j) == j.task.fmt = "1x1" /\ j.task.task_type = "video"
         S9(j) == j.task.fmt = "9x16" /\ j.task.task_type = "static"
         V9(j) == j.task.fmt = "9x16" /\ j.task.task_type = "video"
         grouped == SelectSeq(jobs, S1) \o SelectSeq(jobs, V1) \o
                    SelectSeq(jobs, S9) \o SelectSeq(jobs, V9)
     IN /\ all_tasks' = [p \in 1..Len(grouped) |-> grouped[p].task]
        /\ task_src' = [p \in 1..Len(grouped) |-> grouped[p].src]
  /\ total' = Len(all_tasks)
  /\ i' = 0
  /\ pc' = "exec"
  /\ UNCHANGED <<store_vars, call_vars, input_vars, format_type, hero_idx, overlay_idx,
                 results, out_files, dispatched, returned, calls, prev>>

\* the 9x16 hero loop is exhausted: total = len(all_tasks), the execution
\* loop starts
EndExpansion ==
  /\ pc = "hero"
  /\ hero_idx > Len(heroes[format_type])
  /\ format_type = "9x16"
  /\ total' = Len(all_tasks)
  /\ i' = 0
  /\ pc' = "exec"
  /\ UNCHANGED <<store_vars, call_vars, input_vars, format_type, hero_idx, overlay_idx, all_tasks,
                 results, hist_vars>>

(***************************************************************************)
(* render_all: the execution loop.                                         *)
(***************************************************************************)
\* a plausible slip: the compositor picked by the format of the task
CompositorOf_by_format(task) ==
  IF task.fmt = "1x1" THEN "composite_static" ELSE "composite_video_overlay"

\* the compositor render_all picks for a task
CompositorOf(task) ==
  IF task.task_type = "static" THEN "composite_static" ELSE "composite_video_overlay"

\* the environments a job of a batch can meet.  When the calls are recorded,
\* every environment of a single call.  When only the outcome of a job is
\* kept, one environment for each outcome is enough: every step works, or
\* the first step of either compositor fails (the hero cannot be decoded,
\* ffprobe cannot be started)
Faults ==
  IF record_runs THEN StaticEnvs \cup VideoEnvs
  ELSE { EnvOk, [EnvOk EXCEPT !.hero_open = "fail", !.probe = "missing"] }

\* the content of the input files: the size of a hero image, and the suffix,
\* frame size and duration of an overlay
HeroSize(hero) == IF hero.stem = "a" THEN <<3, 2>> ELSE <<1000, 1000>>
OverlayContent(overlay) ==
  OverlayFile(overlay.suffix, <<2, 2>>,
              IF overlay.suffix = ".png" THEN 0 ELSE IF overlay.stem = "v" THEN 120 ELSE 250)

\* the call render_all makes for a task: composite_static for a static task,
\* composite_video_overlay (without a duration) for a video task
CompositeCall(task, fault) ==
  IF task.task_type = "static"
    THEN composite_static(HeroSize(task.hero), OverlayContent(task.overlay).size,
                          task.pos, fault)
    ELSE composite_video_overlay(OverlayContent(task.overlay).duration, task.pos,
                                 NoDuration, fault)

\* success = self.composite_static(...) / self.composite_video_overlay(...)
Composite(task, fault) == CompositeCall(task, fault).ret

\* the record of the call made for job number job
JobRun(task, fault, job) ==
  Run(CompositorOf(task), HeroSize(task.hero), OverlayContent(task.overlay), task.pos,
      NoDuration, 0, TRUE, fault, job, CompositeCall(task, fault))

\* a plausible slip: the output path is appended outside the "if success"
Tally_append_always(res, success, output_path) ==
  IF success
    THEN [res EXCEPT !.success = @ + 1, !.outputs = Append(@, Str(output_path))]
    ELSE [res EXCEPT !.failed = @ + 1, !.outputs = Append(@, Str(output_path))]

\* results after a compositor call returned success for the job at output_path
Tally(res, success, output_path) ==
  IF success
    THEN [res EXCEPT !.success = @ + 1, !.outputs = Append(@, Str(output_path))]
    ELSE [res EXCEPT !.failed = @ + 1]

\* for i, task in enumerate(all_tasks): the next task is taken
LoopNext ==
  /\ pc = "exec"
  /\ i < total
  /\ pc' = IF progress_callback THEN "callback" ELSE "dispatch"
  /\ UNCHANGED <<store_vars, call_vars, input_vars, format_type, hero_idx, overlay_idx, all_tasks,
                 total, i, results, hist_vars>>

\* a plausible slip: progress_callback(i, total, ...), the 0-based index
ProgressCallback_zero_based ==
  /\ pc = "callback"
  /\ calls' = Append(calls,
       [current |-> i, total |-> total,
        message |-> "Rendering " \o PathName(all_tasks[i + 1].output_path),
        dispatched |-> Len(dispatched), returned |-> Len(returned),
        counted |-> results.success + results.failed])
  /\ pc' = "dispatch"
  /\ UNCHANGED <<store_vars, call_vars, input_vars, format_type, hero_idx, overlay_idx, all_tasks,
                 total, i, results, out_files, task_src, dispatched, returned, prev>>

\* a plausible slip: the number of jobs still to run passed as the total
ProgressCallback_total_remaining ==
  /\ pc = "callback"
  /\ calls' = Append(calls,
       [current |-> i + 1, total |-> total - i - 1,
        message |-> "Rendering " \o PathName(all_tasks[i + 1].output_path),
        dispatched |-> Len(dispatched), returned |-> Len(returned),
        counted |-> results.success + results.failed])
  /\ pc' = "dispatch"
  /\ UNCHANGED <<store_vars, call_vars, input_vars, format_type, hero_idx, overlay_idx, all_tasks,
                 total, i, results, out_files, task_src, dispatched, returned, prev>>

\* progress_callback(i + 1, total, f"Rendering {output_path.name}")
ProgressCallback ==
  /\ pc = "callback"
  /\ calls' = Append(calls,
       [current |-> i + 1, total |-> total,
        message |-> "Rendering " \o PathName(all_tasks[i + 1].output_path),
        dispatched |-> Len(dispatched), returned |-> Len(returned),
        counted |-> results.success + results.failed])
  /\ pc' = "dispatch"
  /\ UNCHANGED <<store_vars, call_vars, input_vars, format_type, hero_idx, overlay_idx, all_tasks,
                 total, i, results, out_files, task_src, dispatched, returned, prev>>

\* the progress callback raises: the call stands outside any try block, so
\* the exception leaves the for loop and render_all; no result is returned
ProgressCallbackRaises ==
  /\ pc = "callback"
  /\ calls' = Append(calls,
       [current |-> i + 1, total |-> total,
        message |-> "Rendering " \o PathName(all_tasks[i + 1].output_path),
        dispatched |-> Len(dispatched), returned |-> Len(returned),
        counted |-> results.success + results.failed])
  /\ pc' = "raised"
  /\ UNCHANGED <<store_vars, call_vars, input_vars, format_type, hero_idx, overlay_idx, all_tasks,
                 total, i, results, out_files, task_src, dispatched, returned, prev>>

\* a plausible slip: self.config[key].update({...}) for a stored key: the
\* dict the key is bound to is the object get_position handed to the tasks
SetPositionInCallback_update_in_place ==
  /\ pc = "callback"
  /\ set_pc = "idle"
  /\ sets < MaxSets
  /\ \E fmt \in Formats, kind \in Kinds, scale \in ScaleValues :
       /\ set_position(fmt, 0, 0, scale, 2, kind)
       /\ last_set' = SetCall(fmt, 0, 0, scale, 2, kind)
       /\ all_tasks' =
            [ p \in DOMAIN all_tasks |->
                IF /\ all_tasks[p].fmt = fmt
                   /\ all_tasks[p].task_type = kind
                   /\ PositionKey(fmt, kind) \in DOMAIN config
                  THEN [all_tasks[p] EXCEPT !.pos = PositionRecord(0, 0, scale, 2, kind)]
                  ELSE all_tasks[p] ]
  /\ sets' = sets + 1
  /\ UNCHANGED <<got, set_pc, prior, loaded, peer, input_vars, call_vars, hist_vars,
                 pc, format_type, hero_idx, overlay_idx, total, i, results>>

\* the progress callback calls set_position before it returns: self.config[key]
\* is bound to a new dict, and the dicts the tasks hold are left as they are
SetPositionInCallback ==
  /\ pc = "callback"
  /\ set_pc = "idle"
  /\ sets < MaxSets
  /\ \E fmt \in Formats, kind \in Kinds, scale \in ScaleValues :
       /\ set_position(fmt, 0, 0, scale, 2, kind)
       /\ last_set' = SetCall(fmt, 0, 0, scale, 2, kind)
  /\ sets' = sets + 1
  /\ UNCHANGED <<got, set_pc, prior, loaded, peer, input_vars, call_vars, hist_vars,
                 local_vars>>

\* the task is handed to composite_static or composite_video_overlay
Dispatch ==
  /\ pc = "dispatch"
  /\ dispatched' = Append(dispatched,
       [job |-> i + 1, compositor |-> CompositorOf(all_tasks[i + 1]),
        returned |-> Len(returned)])
  /\ pc' = "compositing"
  /\ UNCHANGED <<store_vars, call_vars, input_vars, format_type, hero_idx, overlay_idx, all_tasks,
                 total, i, results, out_files, task_src, returned, calls, prev>>

\* a plausible slip: a "break" on the first failed job
CompositeReturn_break_on_failure ==
  /\ pc = "compositing"
  /\ \E fault \in Faults :
       LET task == all_tasks[i + 1]
       IN \E success \in {Composite(task, fault)} :
          /\ returned' = Append(returned, success)
          /\ results' = Tally(results, success, task.output_path)
          /\ out_files' = IF success
                            THEN [ f \in DOMAIN out_files \cup {Str(task.output_path)} |->
                                     IF f = Str(task.output_path) THEN i + 1
                                     ELSE out_files[f] ]
                            ELSE out_files
          /\ i' = IF success THEN i + 1 ELSE total
          /\ run' = IF record_runs THEN JobRun(task, fault, i + 1) ELSE run
  /\ pc' = "exec"
  /\ UNCHANGED <<store_vars, record_runs, record_outcomes, tmp_files, input_vars, format_type, hero_idx,
                 overlay_idx, all_tasks, total, task_src, dispatched, calls, prev>>

\* the compositor returns; the result is counted and the loop goes on
CompositeReturn ==
  /\ pc = "compositing"
  /\ \E fault \in Faults :
       LET task == all_tasks[i + 1]
       IN \E success \in {Composite(task, fault)} :
          /\ returned' = Append(returned, success)
          /\ results' = Tally(results, success, task.output_path)
          /\ out_files' = IF success
                            THEN [ f \in DOMAIN out_files \cup {Str(task.output_path)} |->
                                     IF f = Str(task.output_path) THEN i + 1
                                     ELSE out_files[f] ]
                            ELSE out_files
          /\ run' = IF record_runs THEN JobRun(task, fault, i + 1) ELSE run
  /\ i' = i + 1
  /\ pc' = "exec"
  /\ UNCHANGED <<store_vars, record_runs, record_outcomes, tmp_files, input_vars, format_type, hero_idx,
                 overlay_idx, all_tasks, total, task_src, dispatched, calls, prev>>

\* the loop is exhausted: return results
Return ==
  /\ pc = "exec"
  /\ i >= total
  /\ pc' = "done"
  /\ prev' = [ran |-> TRUE, tasks |-> all_tasks, config |-> config,
              subfolder |-> output_subfolder,
              returned |-> IF record_outcomes THEN returned ELSE NoBatch.returned,
              results |-> IF record_outcomes THEN results ELSE NoBatch.results,
              files |-> IF record_outcomes THEN DOMAIN out_files ELSE NoBatch.files]
  /\ UNCHANGED <<store_vars, call_vars, input_vars, format_type, hero_idx, overlay_idx,
                 all_tasks, total, i, results, out_files, task_src, dispatched, returned,
                 calls>>

(***************************************************************************)
(* Specifications.                                                         *)
(***************************************************************************)
\* a config.json that holds two of the four position keys
PartialFile ==
  Present(json_dump(
    [ key \in {PositionKey("1x1", "static"), PositionKey("9x16", "video")} |->
        IF key = PositionKey("1x1", "static")
          THEN PositionRecord(7, 0, 50, 1, "static")
          ELSE PositionRecord(0, 0, 100, 2, "video") ]))

\* the state after Compositor.__init__ on a directory whose config.json is file
Constructed(file) ==
  /\ config_file = file
  /\ config = load_config(file)
  /\ got = NoCall
  /\ sets = 0
  /\ set_pc = "idle"
  /\ last_set = NoSet
  /\ prior = Absent
  /\ loaded = [after |-> "start", raised |-> FALSE]
  /\ peer = NoPeer
  /\ heroes = [f \in Formats |-> <<>>]
  /\ overlays = [f \in Formats |-> [k \in Kinds |-> <<>>]]
  /\ output_subfolder = ""
  /\ progress_callback = FALSE
  /\ pc = "idle"
  /\ format_type = "1x1"
  /\ hero_idx = 1
  /\ overlay_idx = 1
  /\ all_tasks = <<>>
  /\ total = 0
  /\ i = 0
  /\ results = [success |-> 0, failed |-> 0, outputs |-> <<>>]
  /\ out_files = EmptyDict
  /\ task_src = <<>>
  /\ dispatched = <<>>
  /\ returned = <<>>
  /\ calls = <<>>
  /\ prev = NoBatch
  /\ run = NoRun
  /\ tmp_files = 0

\* one batch, the Compositor constructed on a config.json that holds some keys
Init == Constructed(PartialFile) /\ record_runs = FALSE /\ record_outcomes = FALSE
Next ==
  \/ Batch
  \/ NextHero \/ NextFormat \/ AppendStatic \/ EndStatic \/ AppendVideo \/ EndVideo
  \/ EndExpansion
  \/ LoopNext \/ ProgressCallback \/ Dispatch \/ CompositeReturn \/ Return
Spec == Init /\ [][Next]_vars

\* the position store alone, from any config.json
InitStore ==
  /\ \E file \in StoredFiles : Constructed(file)
  /\ record_runs = FALSE
  /\ record_outcomes = FALSE
NextStore == SetPosition \/ GetPosition
SpecStore == InitStore /\ [][NextStore]_vars

\* batches run again on the same lists, the positions edited in between
NextRerun ==
  \/ SmallBatch \/ RenderAgain \/ SetPositionBetweenBatches
  \/ NextHero \/ NextFormat \/ AppendStatic \/ EndStatic \/ AppendVideo \/ EndVideo
  \/ EndExpansion
  \/ LoopNext \/ ProgressCallback \/ Dispatch \/ CompositeReturn \/ Return
SpecRerun == Init /\ [][NextRerun]_vars

\* set_position statement by statement, the process killed or a write failing
\* at any point, and the application started again
NextCrash ==
  \/ SetAssign \/ SaveOpen \/ SaveDump \/ SaveClose
  \/ WriteFault \/ Crash \/ Restart
InitCrash ==
  /\ Constructed(PartialFile) \/ Constructed(Absent)
  /\ record_runs = FALSE
  /\ record_outcomes = FALSE
SpecCrash == InitCrash /\ [][NextCrash]_vars

\* single calls of the compositors and of create_preview
NextComposite ==
  \/ CompositeStatic \/ CompositeVideoOverlay \/ ExtractFirstFrame \/ CreatePreview
SpecComposite == Init /\ [][NextComposite]_vars

\* one batch, every compositor call recorded with its environment
InitJobs == Constructed(PartialFile) /\ record_runs = TRUE /\ record_outcomes = FALSE
\* a first call with one 1x1 hero and at most MaxFilesJobs files in all
JobsBatch ==
  /\ pc = "idle"
  /\ \E n3 \in 0..(MaxFilesJobs - 1) : \E n5 \in 0..(MaxFilesJobs - 1 - n3) :
     \E hero \in HeroFiles("1x1"),
        s1 \in ListsOfLen(OverlayFiles("1x1", "static"), n3),
        v1 \in ListsOfLen(OverlayFiles("1x1", "video"), n5),
        callback \in BOOLEAN :
       RenderAll([f \in Formats |-> IF f = "1x1" THEN <<hero>> ELSE <<>>],
                 [f \in Formats |-> [k \in Kinds |->
                    IF f = "1x1" THEN (IF k = "static" THEN s1 ELSE v1) ELSE <<>>]],
                 "", callback)
NextJobs ==
  \/ JobsBatch
  \/ NextHero \/ NextFormat \/ AppendStatic \/ EndStatic \/ AppendVideo \/ EndVideo
  \/ EndExpansion
  \/ LoopNext \/ ProgressCallback \/ Dispatch \/ CompositeReturn \/ Return
SpecJobs == InitJobs /\ [][NextJobs]_vars

\* one small batch run again and again on the same lists, the outcomes of
\* each run kept for the next, the positions edited in between
InitRepeat == Constructed(PartialFile) /\ record_runs = FALSE /\ record_outcomes = TRUE
\* a first call with one 1x1 hero and at most MaxFilesRerun 1x1 overlays,
\* without a progress callback
RepeatBatch ==
  /\ pc = "idle"
  /\ \E n3 \in 0..MaxFilesRerun : \E n5 \in 0..(MaxFilesRerun - n3) :
     \E hero \in HeroFiles("1x1"),
        s1 \in ListsOfLen(OverlayFiles("1x1", "static"), n3),
        v1 \in ListsOfLen(OverlayFiles("1x1", "video"), n5) :
       RenderAll([f \in Formats |-> IF f = "1x1" THEN <<hero>> ELSE <<>>],
                 [f \in Formats |-> [k \in Kinds |->
                    IF f = "1x1" THEN (IF k = "static" THEN s1 ELSE v1) ELSE <<>>]],
                 "", FALSE)
NextRepeat ==
  \/ RepeatBatch \/ RenderAgain \/ SetPositionBetweenBatches
  \/ NextHero \/ NextFormat \/ AppendStatic \/ EndStatic \/ AppendVideo \/ EndVideo
  \/ EndExpansion
  \/ LoopNext \/ Dispatch \/ CompositeReturn \/ Return
SpecRepeat == InitRepeat /\ [][NextRepeat]_vars

\* a config.json that holds the four position keys, no two records alike and
\* none of them the default of its kind
FullFile ==
  Present(json_dump(
    [ key \in PositionKeys |->
        IF key = PositionKey("1x1", "static") THEN PositionRecord(7, 0, 50, 1, "static")
        ELSE IF key = PositionKey("1x1", "video") THEN PositionRecord(7, 0, 100, 2, "video")
        ELSE IF key = PositionKey("9x16", "static") THEN PositionRecord(0, 0, 50, 1, "static")
        ELSE PositionRecord(0, 0, 50, 1, "video") ]))

\* one batch, the Compositor constructed on a config.json that holds all keys
InitAllKeys == Constructed(FullFile) /\ record_runs = FALSE /\ record_outcomes = FALSE
SpecAllKeys == InitAllKeys /\ [][Next]_vars

\* one batch whose progress callback may raise at any of its calls
NextCallbackFault == NextJobs \/ ProgressCallbackRaises
SpecCallbackFault == Init /\ [][NextCallbackFault]_vars

\* one batch whose progress callback may call set_position
NextSetInCallback == NextJobs \/ SetPositionInCallback
SpecSetInCallback == Init /\ [][NextSetInCallback]_vars

\* two instances of the position store on one config.json, absent or holding
\* some or all of the keys
InitPeers ==
  /\ \E file \in {Absent, PartialFile, FullFile} : Constructed(file)
  /\ record_runs = FALSE
  /\ record_outcomes = FALSE
NextPeers == PeerConstruct \/ SetPositionBesidePeer \/ PeerSetPosition
SpecPeers == InitPeers /\ [][NextPeers]_vars

\* a config.json edited by hand: the static record of 1x1 carries a
\* loop_count, and the text record of 1x1 is held beside it
EditedFile ==
  Present(json_dump(
    [ key \in {PositionKey("1x1", "static"), TextKey("1x1")} |->
        IF key = TextKey("1x1") THEN TextRecord(7, 0, "SALE", 48, "#FFFFFF", "mm")
        ELSE [x |-> 0, y |-> 0, scale |-> 100, loop_count |-> 2] ]))

\* the store with its position records and its text records: positions set
\* with x = 7 and loop_count = 2, texts set with any of their values
InitText ==
  /\ \E file \in {Absent, FullFile, EditedFile} : Constructed(file)
  /\ record_runs = FALSE
  /\ record_outcomes = FALSE
NextText ==
  \/ SetPosition /\ last_set'.x = 7 /\ last_set'.loop_count = 2
  \/ SetTextConfig
SpecText == InitText /\ [][NextText]_vars

(***************************************************************************)
(* Properties.                                                             *)
(***************************************************************************)
\* the task list is complete: render_all is at the head of the execution
\* loop (before a job or before the return) or has returned
AtLoopHead == pc \in {"exec", "done"}

\* the indices of the jobs of format f and kind k
BucketTasks(f, k) ==
  { p \in 1..Len(all_tasks) : all_tasks[p].fmt = f /\ all_tasks[p].task_type = k }

\* the elements of a list
Range(seq) == { seq[n] : n \in 1..Len(seq) }

\* the str() of the output paths of the successful jobs among the first n, in order
RECURSIVE SuccessfulOutputs(_)
SuccessfulOutputs(n) ==
  IF n = 0 THEN <<>>
  ELSE IF returned[n]
    THEN Append(SuccessfulOutputs(n - 1), Str(all_tasks[n].output_path))
    ELSE SuccessfulOutputs(n - 1)

\* C1: every (format, kind) bucket holds exactly |heroes| x |overlays| jobs,
\* one per (hero, overlay) pair of list positions; an empty list gives an
\* empty bucket, and render_all still runs to its return (with no job at all
\* it returns success=0, failed=0, outputs=[]).
C1_CrossProduct ==
  /\ Len(task_src) = Len(all_tasks)
  /\ AtLoopHead =>
       \A f \in Formats, k \in Kinds :
         /\ Cardinality(BucketTasks(f, k)) = Len(heroes[f]) * Len(overlays[f][k])
         /\ \A h \in 1..Len(heroes[f]), o \in 1..Len(overlays[f][k]) :
              Cardinality({ p \in BucketTasks(f, k) :
                              /\ task_src[p] = [hero |-> h, overlay |-> o]
                              /\ all_tasks[p].hero = heroes[f][h]
                              /\ all_tasks[p].overlay = overlays[f][k][o] }) = 1
  /\ pc \notin {"idle", "done"} => ENABLED Next
  /\ (pc = "done" /\ all_tasks = <<>>) =>
       results = [success |-> 0, failed |-> 0, outputs |-> <<>>]

\* C1 witness: a batch returned whose 1x1 static bucket is 2 x 2 and whose
\* other buckets are empty
C1_Witness ==
  /\ pc = "done"
  /\ Len(heroes["1x1"]) = 2
  /\ Len(overlays["1x1"]["static"]) = 2
  /\ Len(heroes["9x16"]) = 0
  /\ Len(all_tasks) = 4

\* C2: the job list is format-major, then hero-major, then overlay-minor:
\* no 9x16 job precedes a 1x1 job, within a format the hero positions never
\* decrease, and within one hero and one kind the overlay positions increase;
\* the jobs are dispatched in that order.
C2_Ordering ==
  /\ AtLoopHead =>
       \A p, q \in 1..Len(all_tasks) :
         p < q =>
           /\ all_tasks[p].fmt = "9x16" => all_tasks[q].fmt = "9x16"
           /\ all_tasks[p].fmt = all_tasks[q].fmt =>
                /\ task_src[p].hero <= task_src[q].hero
                /\ ( /\ task_src[p].hero = task_src[q].hero
                     /\ all_tasks[p].task_type = all_tasks[q].task_type )
                   => task_src[p].overlay < task_src[q].overlay
  /\ \A n, m \in 1..Len(dispatched) : n < m => dispatched[n].job < dispatched[m].job

\* C2 witness: two heroes of one format, each with a static and a video job
C2_Witness ==
  /\ pc = "exec"
  /\ Len(all_tasks) = 4
  /\ Len(heroes["9x16"]) = 2
  /\ Len(overlays["9x16"]["static"]) = 1
  /\ Len(overlays["9x16"]["video"]) = 1

\* C3: every job is handed to a compositor exactly once, in job-list order
\* and one at a time (job n is dispatched when n - 1 calls have returned),
\* whatever the earlier jobs returned; render_all returns only when every
\* job has been dispatched and has returned.
C3_EveryJobOnce ==
  /\ \A n \in 1..Len(dispatched) :
       /\ dispatched[n].job = n
       /\ dispatched[n].returned = n - 1
  /\ Len(dispatched) <= Len(all_tasks)
  /\ Len(returned) <= Len(dispatched)
  /\ Len(dispatched) <= Len(returned) + 1
  /\ pc = "compositing" <=> Len(dispatched) = Len(returned) + 1
  /\ pc = "done" =>
       /\ Len(dispatched) = Len(all_tasks)
       /\ Len(returned) = Len(all_tasks)

\* C3 witness: a batch returned after job 2 failed and job 3 was attempted
C3_Witness ==
  /\ pc = "done"
  /\ returned = <<TRUE, FALSE, TRUE>>

\* C4: success + failed is the number of jobs that have returned, at every
\* point; at the return it is the number of jobs, success is the number of
\* jobs that returned True, and outputs is the list of the output paths of
\* those jobs, in job-list order.
C4_Accounting ==
  /\ pc # "idle" =>
       /\ results.success + results.failed = Len(returned)
       /\ results.success = Cardinality({ n \in 1..Len(returned) : returned[n] })
       /\ Len(results.outputs) = results.success
  /\ AtLoopHead => results.outputs = SuccessfulOutputs(Len(returned))
  /\ pc = "done" => results.success + results.failed = Len(all_tasks)

\* C4 witness: a batch returned with two successful and two failed jobs
C4_Witness ==
  /\ pc = "done"
  /\ results.success = 2
  /\ results.failed = 2

\* C5 (as claimed): at the return the output path of every failed job is
\* absent from outputs, and the output path of every successful job is in it.
C5_FailureIsolation ==
  pc = "done" =>
    /\ results.success = Cardinality({ n \in 1..Len(returned) : returned[n] })
    /\ results.failed = Cardinality({ n \in 1..Len(returned) : ~returned[n] })
    /\ \A n \in 1..Len(returned) :
         returned[n] <=> Str(all_tasks[n].output_path) \in Range(results.outputs)

\* C6 (as claimed): when the callback is called with completed_count = c,
\* c jobs have been dispatched and have returned, and success + failed = c.
C6_CallbackAfterJob ==
  \A n \in 1..Len(calls) :
    /\ calls[n].dispatched = calls[n].current
    /\ calls[n].returned = calls[n].current
    /\ calls[n].counted = calls[n].current

\* C6 (amended): the callback of a job is invoked before the job is
\* dispatched, whatever the earlier jobs returned: the n-th call carries
\* completed_count = n, and at that moment n - 1 jobs have been dispatched
\* and have returned and success + failed = n - 1; every job dispatched had
\* its call.
C6_CallbackBeforeJob ==
  /\ \A n \in 1..Len(calls) :
       /\ calls[n].current = n
       /\ calls[n].dispatched = n - 1
       /\ calls[n].returned = n - 1
       /\ calls[n].counted = n - 1
  /\ progress_callback =>
       Len(calls) = IF pc = "dispatch" THEN Len(dispatched) + 1 ELSE Len(dispatched)
  /\ ~progress_callback => calls = <<>>

\* C6 witness: the callback of job 2 was invoked after job 1 failed
C6_Witness ==
  /\ pc = "dispatch"
  /\ Len(calls) = 2
  /\ returned = <<FALSE>>

C8_OutputPath ==
  AtLoopHead => \A p \in 1..Len(all_tasks) :
    LET t == all_tasks[p]
        name == t.hero.stem \o "_" \o t.overlay.stem \o "."
                  \o (IF t.task_type = "static" THEN "png" ELSE "mp4")
    IN /\ t.task_type \in Kinds
       /\ Len(t.output_path) = Len(base_path) + (IF output_subfolder = "" THEN 3 ELSE 4)
       /\ SubSeq(t.output_path, 1, Len(base_path)) = base_path
       /\ t.output_path[Len(base_path) + 1] = "outputs"
       /\ t.output_path[Len(base_path) + 2] = t.fmt
       /\ output_subfolder # "" => t.output_path[Len(base_path) + 3] = output_subfolder
       /\ t.output_path[Len(t.output_path)] = name

\* C8 witness: a static and a video job expanded under the subfolder "render"
C8_Witness ==
  /\ AtLoopHead
  /\ output_subfolder = "render"
  /\ \E p, q \in 1..Len(all_tasks) :
       all_tasks[p].task_type = "static" /\ all_tasks[q].task_type = "video"

\* C9 (as claimed): two jobs that differ in their hero or in their overlay
\* have different output paths; outputs holds no path twice and every
\* successful job's file is still the one that job wrote.
C9_DistinctOutputPaths ==
  /\ \A p, q \in 1..Len(all_tasks) :
       ( p # q /\ ( all_tasks[p].hero # all_tasks[q].hero
                    \/ all_tasks[p].overlay # all_tasks[q].overlay ) )
         => all_tasks[p].output_path # all_tasks[q].output_path
  /\ \A n, m \in 1..Len(results.outputs) :
       n # m => results.outputs[n] # results.outputs[m]
  /\ \A n \in 1..Len(returned) :
       returned[n] => out_files[Str(all_tasks[n].output_path)] = n

\* C10: a lookup never raises, and a lookup of a key that is not stored
\* returns x=0, y=0, scale=1.0, plus loop_count=1 for the video kind.
C10_GetNeverFails ==
  /\ got.called =>
       /\ got.value # KeyError
       /\ ~got.stored =>
            got.value = IF got.kind = "video"
                          THEN [x |-> 0, y |-> 0, scale |-> 100, loop_count |-> 1]
                          ELSE [x |-> 0, y |-> 0, scale |-> 100]
       /\ got.stored => got.value \in StoredRecords(got.kind)
  /\ \A f \in Formats, k \in Kinds :
       PositionKey(f, k) \notin DOMAIN config =>
         get_position(config, f, k) =
           IF k = "video" THEN [x |-> 0, y |-> 0, scale |-> 100, loop_count |-> 1]
                          ELSE [x |-> 0, y |-> 0, scale |-> 100]

\* C10 witness: a video lookup of a key that config.json did not hold, in a
\* store that holds other keys
C10_Witness ==
  /\ got.called
  /\ ~got.stored
  /\ got.kind = "video"
  /\ DOMAIN config # {}

\* C11 (as claimed): a get_position of the key of the last set_position
\* returns the x, y, scale and loop_count that call was given, for the static
\* kind as for the video kind (a record without loop_count reads as 1, its
\* default).
C11_RoundTripAllFields ==
  (got.called /\ last_set.called /\ got.key = last_set.key) =>
    /\ got.value["x"] = last_set.x
    /\ got.value["y"] = last_set.y
    /\ got.value["scale"] = last_set.scale
    /\ PosGet(got.value, "loop_count", 1) = last_set.loop_count

\* C11 (amended): a get_position of the key of the last set_position returns
\* a stored record that holds exactly the x, y and scale that call was given,
\* and its loop_count for the video kind; for the static kind the record has
\* no loop_count, whatever loop_count was given.
C11_RoundTripOfKind ==
  (got.called /\ last_set.called /\ got.key = last_set.key) =>
    /\ got.stored
    /\ got.value = IF last_set.kind = "video"
                     THEN [x |-> last_set.x, y |-> last_set.y, scale |-> last_set.scale,
                           loop_count |-> last_set.loop_count]
                     ELSE [x |-> last_set.x, y |-> last_set.y, scale |-> last_set.scale]

\* C11 witness: a static record set with loop_count 2 and read back
C11_Witness ==
  /\ got.called
  /\ last_set.called
  /\ got.key = last_set.key
  /\ last_set.kind = "static"
  /\ last_set.loop_count = 2
  /\ last_set.x = 7

\* C12: once a set_position has returned, config.json holds the complete text
\* of the whole in-memory mapping, and that text reads back (json.load, and
\* load_config of a new Compositor) as a mapping equal to the one in memory.
C12_WriteThrough ==
  last_set.called =>
    /\ config_file.exists
    /\ config_file.content.closed
    /\ { config_file.content.members[n].key : n \in 1..Len(config_file.content.members) }
         = DOMAIN config
    /\ json_load(config_file.content) = config
    /\ load_config(config_file) = config

\* C12 witness: a set_position returned in a store that holds four records,
\* the one just set with scale 0.5 and another one with scale 1.0
C12_Witness ==
  /\ last_set.called
  /\ DOMAIN config = PositionKeys
  /\ last_set.scale = 50
  /\ \E key \in DOMAIN config : config[key]["scale"] = 100

\* C13 (as claimed): when a set_position is interrupted before the new
\* mapping is completely written, config.json is the file it was before the
\* call, and the load of the next start yields the mapping that file held.
C13_PriorIntact ==
  /\ set_pc \in {"crashed_before_open", "crashed_in_write"} =>
       /\ config_file = prior
       /\ load_config(config_file) = load_config(prior)
  /\ loaded.after \in {"crashed_before_open", "crashed_in_write"} =>
       /\ ~loaded.raised
       /\ config = load_config(prior)

\* C13 (amended): when a set_position is interrupted before save_config has
\* opened config.json, the file is the file it was before the call and the
\* load of the next start yields what that file held; when it is interrupted
\* between the open and the end of the write, the file holds an unfinished
\* text (nothing, or the first members of the new mapping) and the load of
\* the next start raises JSONDecodeError.
C13_PriorIntactBeforeOpen ==
  /\ set_pc = "crashed_before_open" =>
       /\ config_file = prior
       /\ load_config(config_file) = load_config(prior)
  /\ set_pc = "crashed_in_write" =>
       /\ config_file.exists
       /\ ~config_file.content.closed
       /\ Len(config_file.content.members) <= Len(json_dump(config).members)
       /\ config_file.content.members =
            SubSeq(json_dump(config).members, 1, Len(config_file.content.members))
       /\ load_config(config_file) = JSONDecodeError
  /\ loaded.after = "crashed_before_open" =>
       /\ config_file = prior
       /\ loaded.raised <=> load_config(prior) = JSONDecodeError
       /\ ~loaded.raised => config = load_config(prior)
  /\ loaded.after = "crashed_in_write" =>
       /\ loaded.raised
       /\ set_pc = "dead"

\* C13 witness: the application does not start again after a set_position
\* was interrupted with one member of the new mapping written
C13_Witness ==
  /\ set_pc = "dead"
  /\ loaded.after = "crashed_in_write"
  /\ Len(config_file.content.members) = 1
  /\ prior.exists
  /\ prior.content.closed

\* the call of the job that returned last is the recorded one
LastJobRecorded ==
  /\ run.called
  /\ run.job >= 1
  /\ run.job = Len(returned)

\* the position record of a call has the fields the compositors subscript
HasOffsets(position) == "x" \in DOMAIN position /\ "y" \in DOMAIN position

\* C14 (as claimed): a video job whose duration probe exits non-zero or gives
\* no parsable duration, or whose encode step exits non-zero, returns False,
\* is counted as failed, and the batch goes on.
C14_ProbeOrEncodeFailureFailsJob ==
  /\ ( /\ LastJobRecorded
       /\ run.fn = "composite_video_overlay"
       /\ \/ run.env.probe \in {"nonzero", "unparsable"}
          \/ run.env.encode = "nonzero" ) =>
       /\ ~run.out.ret
       /\ ~returned[run.job]
       /\ results.failed >= 1
  /\ pc = "done" => Len(returned) = Len(all_tasks)

\* C14 (amended): a video job whose encode step exits non-zero returns False
\* and is counted as failed, and the batch goes on with the next job.  A
\* duration probe that exits non-zero or gives no parsable duration does not
\* fail the job: the duration falls back to 5.0 seconds, the encode step is
\* run for 5.0 x loop_count seconds and the job succeeds or fails as that
\* step does.
C14_EncodeFailureFailsJob ==
  /\ ( LastJobRecorded /\ run.fn = "composite_video_overlay" ) =>
       /\ ~run.out.raised
       /\ returned[run.job] = run.out.ret
       /\ results.success + results.failed = run.job
       /\ results.failed = Cardinality({ n \in 1..Len(returned) : ~returned[n] })
       /\ run.env.encode = "nonzero" => ~run.out.ret
       /\ ( /\ run.env.probe \in {"nonzero", "unparsable"}
            /\ run.env.mkdir = "ok"
            /\ run.env.encode # "missing" ) =>
            /\ run.out.ret <=> run.env.encode = "ok"
            /\ run.out.cmd.t = FloatRepr(500 * PosGet(run.position, "loop_count", 1))
       /\ pc \in {"exec", "callback", "dispatch", "compositing", "done"}
       /\ i >= run.job
  /\ pc = "done" => Len(returned) = Len(all_tasks)

\* C14 witness: job 2 is about to be dispatched after the encode step of
\* video job 1 exited non-zero
C14_Witness ==
  /\ pc = "dispatch"
  /\ run.called
  /\ run.job = 1
  /\ run.fn = "composite_video_overlay"
  /\ run.env.encode = "nonzero"
  /\ run.env.probe = "ok"
  /\ results.failed = 1

\* C15 (as claimed): no call of extract_first_frame leaves its temporary
\* file behind, so the temp directory holds no leftover file after any
\* sequence of calls.
C15_TempCleanup ==
  /\ tmp_files = 0
  /\ (run.called /\ run.fn \in {"extract_first_frame", "create_preview"}) =>
       run.out.leaked = 0

\* the overlay duration composite_video_overlay works with, when it has one:
\* the duration argument, or the duration a working probe reports
KnowsDuration(r) == r.duration.given \/ r.env.probe = "ok"
BaseDuration(r) == IF r.duration.given THEN r.duration.value ELSE r.overlay.duration

C17_NeverRaises ==
  /\ (run.called /\ run.fn = "composite_static") =>
       /\ ~run.out.raised
       /\ run.out.ret <=>
            /\ run.env.hero_open = "ok"
            /\ run.env.overlay_open = "ok"
            /\ ~ResizeRaises(Decoded(run.overlay.size), run.position)
            /\ HasOffsets(run.position)
            /\ run.env.mkdir = "ok"
            /\ run.env.save = "ok"
  /\ (run.called /\ run.fn = "composite_video_overlay") =>
       /\ ~run.out.raised
       /\ run.out.ret <=>
            /\ run.duration.given \/ run.env.probe # "missing"
            /\ HasOffsets(run.position)
            /\ run.env.mkdir = "ok"
            /\ run.env.encode = "ok"

\* C17 witness: composite_static returned False because the output directory
\* could not be created
C17_Witness ==
  /\ run.called
  /\ run.fn = "composite_static"
  /\ run.env = [EnvOk EXCEPT !.mkdir = "fail"]
  /\ HasOffsets(run.position)
  /\ ~run.out.ret

\* the extraction of a call fails: no temporary file, ffprobe missing when a
\* later frame is asked for, ffmpeg missing or exiting non-zero, or a frame
\* file that cannot be decoded
ExtractionFails(r) ==
  \/ r.env.tmp # "ok"
  \/ r.frame_position > 0 /\ r.env.probe = "missing"
  \/ r.env.encode # "ok"
  \/ r.env.frame_open # "ok"

\* C18: extract_first_frame never raises; it returns None when the
\* extraction fails and the frame otherwise; create_preview, given a video
\* overlay whose extraction fails, returns the hero image with nothing pasted.
C18_NoFrameSignal ==
  /\ (run.called /\ run.fn = "extract_first_frame") =>
       /\ ~run.out.raised
       /\ ExtractionFails(run) => (~run.out.ret /\ run.out.image = NoImage)
       /\ ~ExtractionFails(run) => (run.out.ret /\ run.out.image = Decoded(run.overlay.size))
  /\ ( /\ run.called
       /\ run.fn = "create_preview"
       /\ Lower(run.overlay.suffix) \in {".mov", ".mp4"}
       /\ run.compositor
       /\ run.env.hero_open = "ok"
       /\ ExtractionFails(run) ) =>
       /\ ~run.out.raised
       /\ run.out.ret
       /\ run.out.image = Decoded(run.hero)

\* C18 witness: create_preview returned the hero alone for an .MP4 overlay
\* whose frame extraction exited non-zero
C18_Witness ==
  /\ run.called
  /\ run.fn = "create_preview"
  /\ run.overlay.suffix = ".MP4"
  /\ run.compositor
  /\ run.env.encode = "nonzero"
  /\ run.out.image = Decoded(run.hero)

\* the larger and the smaller of two integers
Max(a, b) == IF a >= b THEN a ELSE b
Min(a, b) == IF a <= b THEN a ELSE b

\* C19: with every step working and an overlay of w x h >= 1 x 1 after
\* scaling, composite_static at any offset (x, y) returns True, the output
\* has the hero's size, the pixel at (px, py) is the overlay pixel
\* (px - x, py - y) when (px, py) lies in the rectangle [x, x+w) x [y, y+h)
\* and the hero's own pixel otherwise; for a 1000 x 1000 hero and a 200 x 200
\* overlay at (900, 900), scale 1.0, the 100 x 100 top-left region of the
\* overlay fills the bottom-right corner from (900, 900).
C19_Clipping ==
  ( /\ run.called
    /\ run.fn = "composite_static"
    /\ run.env = EnvOk
    /\ HasOffsets(run.position)
    /\ ~ResizeRaises(Decoded(run.overlay.size), run.position) ) =>
    LET x == run.position["x"]
        y == run.position["y"]
        w == Resized(Decoded(run.overlay.size), run.position).width
        h == Resized(Decoded(run.overlay.size), run.position).height
        image == run.out.image
        left == Max(x, 0)
        top == Max(y, 0)
        right == Min(x + w, run.hero[1])
        bottom == Min(y + h, run.hero[2])
    IN /\ run.out.ret
       /\ ~run.out.raised
       /\ image.width = run.hero[1]
       /\ image.height = run.hero[2]
       /\ image.pasted <=> (left < right /\ top < bottom)
       /\ image.pasted =>
            /\ image.box = <<left, top, right, bottom>>
            /\ image.src = <<left - x, top - y>>
       /\ run.hero[1] <= 3 =>
            \A px \in 0..(run.hero[1] - 1), py \in 0..(run.hero[2] - 1) :
              PixelAt(image, px, py) =
                IF x <= px /\ px < x + w /\ y <= py /\ py < y + h
                  THEN <<"overlay", px - x, py - y>>
                  ELSE <<"hero", px, py>>
       /\ ( run.hero = <<1000, 1000>> /\ run.overlay.size = <<200, 200>>
            /\ x = 900 /\ y = 900 /\ w = 200 ) =>
            /\ image.box = <<900, 900, 1000, 1000>>
            /\ image.src = <<0, 0>>
            /\ PixelAt(image, 999, 999) = <<"overlay", 99, 99>>
            /\ PixelAt(image, 899, 950) = <<"hero", 899, 950>>

\* C19 witness: the 200 x 200 overlay at (900, 900) on the 1000 x 1000 hero
C19_Witness ==
  /\ run.called
  /\ run.fn = "composite_static"
  /\ run.env = EnvOk
  /\ run.hero = <<1000, 1000>>
  /\ run.overlay.size = <<200, 200>>
  /\ run.position = [x |-> 900, y |-> 900, scale |-> 100]
  /\ run.out.ret
  /\ run.out.image.pasted

\* render_all is at its "return results": the execution loop is exhausted
AtReturn == pc = "exec" /\ i >= total

\* C20: a batch run again on the same lists, under the same output subfolder
\* and position records and with the same job outcomes, returns the result
\* the run before returned and leaves exactly the files that run left; no
\* run removes a file.
C20_RerunIdempotent ==
  /\ ( /\ AtReturn
       /\ prev.ran
       /\ prev.config = config
       /\ prev.subfolder = output_subfolder
       /\ returned = prev.returned ) =>
       /\ results = prev.results
       /\ DOMAIN out_files = prev.files
  /\ prev.files \subseteq DOMAIN out_files

\* C20 witness: a second run returns, its one job successful as in the first
C20_Witness ==
  /\ AtReturn
  /\ prev.ran
  /\ prev.config = config
  /\ returned = prev.returned
  /\ Len(returned) >= 1
  /\ results.success >= 1
  /\ DOMAIN out_files # {}


\* C21: formats and kinds are never cross-matched.  The hero of every job is
\* the hero at its index in the hero list of the job's format and is a file
\* of that format; its overlay is the overlay at its index in the overlay
\* list of that format and of the job's kind and is a file of that format
\* and kind; every job is handed to the compositor of its overlay's kind.
C21_NoCrossMatch ==
  /\ AtLoopHead => \A p \in 1..Len(all_tasks) :
       LET t == all_tasks[p]
       IN /\ t.fmt \in Formats
          /\ t.task_type \in Kinds
          /\ task_src[p].hero \in 1..Len(heroes[t.fmt])
          /\ t.hero = heroes[t.fmt][task_src[p].hero]
          /\ t.hero \in HeroFiles(t.fmt)
          /\ task_src[p].overlay \in 1..Len(overlays[t.fmt][t.task_type])
          /\ t.overlay = overlays[t.fmt][t.task_type][task_src[p].overlay]
          /\ t.overlay \in OverlayFiles(t.fmt, t.task_type)
  /\ \A n \in 1..Len(dispatched) :
       LET t == all_tasks[dispatched[n].job]
       IN /\ dispatched[n].compositor = "composite_static"
               => t.overlay \in OverlayFiles(t.fmt, "static")
          /\ dispatched[n].compositor = "composite_video_overlay"
               => t.overlay \in OverlayFiles(t.fmt, "video")

\* C21 witness: a batch over both formats and both kinds returned, a 9x16
\* video job handed to the video compositor
C21_Witness ==
  /\ pc = "done"
  /\ Len(all_tasks) = 2
  /\ all_tasks[1].fmt = "1x1" /\ all_tasks[1].task_type = "static"
  /\ all_tasks[2].fmt = "9x16" /\ all_tasks[2].task_type = "video"
  /\ Len(dispatched) = 2
  /\ dispatched[2].compositor = "composite_video_overlay"

\* C22 (as claimed): in every state of the position store the mapping holds
\* a record for each of the four keys 1x1_static, 1x1_video, 9x16_static and
\* 9x16_video.
C22_AllKeysHeld ==
  /\ DOMAIN config = PositionKeys
  /\ \A key \in PositionKeys : config[key] \in StoredRecords(KindOfKey(key))

\* the keys of the members of config.json, the four keys when it is absent
KeysOfFile(file) ==
  IF file.exists
    THEN { file.content.members[n].key : n \in 1..Len(file.content.members) }
    ELSE PositionKeys

\* C22 (amended): the mapping holds at most one record for each of the four
\* keys and no other key: after load it holds exactly the keys config.json
\* held (all four when the file is absent), a set adds the key it sets and
\* removes none, and for each of the four keys get_position yields one
\* well-defined record, the stored one or else the default of its kind.
C22_KeysLoadedOrSet ==
  /\ [](/\ DOMAIN config \subseteq PositionKeys
        /\ DOMAIN config = KeysOfFile(config_file)
        /\ \A f \in Formats, k \in Kinds :
             /\ get_position(config, f, k) \in StoredRecords(k)
             /\ PositionKey(f, k) \in DOMAIN config
                  => get_position(config, f, k) = config[PositionKey(f, k)]
             /\ PositionKey(f, k) \notin DOMAIN config
                  => get_position(config, f, k) = PositionDefaults(k))
  /\ [][DOMAIN config' =
          DOMAIN config \cup (IF config' # config THEN {last_set'.key} ELSE {})]_vars

\* C22 witness: a store loaded from a config.json that held one key, a second
\* key set since, two keys still answered by their defaults
C22_Witness ==
  /\ last_set.called
  /\ Cardinality(DOMAIN config) = 2
  /\ last_set.key \in DOMAIN config
  /\ PositionKey("9x16", "video") \notin DOMAIN config
  /\ get_position(config, "9x16", "video") = PositionDefaults("video")

\* the instance that performed the last set_position, and its self.config
LastSetterConfig == IF peer.wrote_last THEN peer.config ELSE config

\* C23: with two Compositor instances on one config.json, a set_position
\* reads nothing again: it changes the self.config of the setting instance
\* alone, by the one record set, and writes that whole mapping; so after any
\* interleaving of sets config.json holds exactly the mapping of the instance
\* that set last, the records of the other instance not merged in.
C23_LastWriterWins ==
  /\ [](peer.sets > 0 =>
         /\ config_file = Present(json_dump(LastSetterConfig))
         /\ load_config(config_file) = LastSetterConfig)
  /\ [][/\ config' # config =>
            /\ peer'.config = peer.config
            /\ config' = DictSet(config, last_set'.key, config'[last_set'.key])
        /\ (peer.constructed /\ peer'.config # peer.config) =>
            /\ config' = config
            /\ \E key \in DOMAIN peer'.config :
                 peer'.config = DictSet(peer.config, key, peer'.config[key])]_vars

\* C23 witness: the second instance set last; config.json holds its mapping
\* and lacks a record the first instance had set and written before
C23_Witness ==
  /\ peer.constructed
  /\ peer.wrote_last
  /\ last_set.called
  /\ last_set.key \in DOMAIN config
  /\ last_set.key \notin DOMAIN load_config(config_file)
  /\ load_config(config_file) = peer.config
  /\ load_config(config_file) # config

\* C24: a set replaces one whole record and nothing else.  A set_position
\* leaves the record of every other key, position or text, as it was, adds
\* no key but its own, and the record under its key is exactly x, y, scale
\* (and loop_count for video) as supplied, no field of the record held
\* before surviving; a step that is no new set_position, set_text_config
\* above all, changes no position record.
C24_SetReplacesOneRecord ==
  [][/\ last_set' # last_set =>
          /\ DOMAIN config' = DOMAIN config \cup {last_set'.key}
          /\ \A key \in DOMAIN config \ {last_set'.key} : config'[key] = config[key]
          /\ config'[last_set'.key] =
               IF last_set'.kind = "video"
                 THEN [x |-> last_set'.x, y |-> last_set'.y, scale |-> last_set'.scale,
                       loop_count |-> last_set'.loop_count]
                 ELSE [x |-> last_set'.x, y |-> last_set'.y, scale |-> last_set'.scale]
     /\ last_set' = last_set =>
          \A key \in PositionKeys :
            /\ key \in DOMAIN config' <=> key \in DOMAIN config
            /\ key \in DOMAIN config => config'[key] = config[key]]_vars

\* C24 witness: from the config.json edited by hand, set_text_config has
\* added the text record of 9x16 and set_position has replaced the static
\* record of 1x1, whose loop_count is gone, the text record of 1x1 untouched
C24_Witness ==
  /\ DOMAIN config = {PositionKey("1x1", "static"), TextKey("1x1"), TextKey("9x16")}
  /\ last_set.called
  /\ last_set.key = PositionKey("1x1", "static")
  /\ DOMAIN config[PositionKey("1x1", "static")] = {"x", "y", "scale"}
  /\ config[TextKey("1x1")] = TextRecord(7, 0, "SALE", 48, "#FFFFFF", "mm")
  /\ load_config(config_file) = config

C26_NoFaultAbortsBatch ==
  /\ pc # "raised"
  /\ pc = "done" =>
       /\ Len(dispatched) = Len(all_tasks)
       /\ results.success + results.failed = Len(all_tasks)

\* C27: render_all only reads the position store.  No step of a batch, from
\* the call to the return, changes the in-memory mapping or config.json, so
\* both are after the return what they were before the call, whatever the
\* lists and whatever the jobs return.
C27_BatchReadsOnly ==
  [][(pc \notin {"idle", "done"} \/ pc' \notin {"idle", "done"}) =>
       /\ config' = config
       /\ config_file' = config_file]_vars

\* C27 witness: a batch has returned in which a 9x16 static job ran on the
\* default of its key; the key is still not stored and config.json is the
\* file the Compositor was constructed on
C27_Witness ==
  /\ pc = "done"
  /\ prev.ran
  /\ ~last_set.called
  /\ \E p \in 1..Len(all_tasks) :
       /\ all_tasks[p].fmt = "9x16"
       /\ all_tasks[p].task_type = "static"
       /\ Len(returned) >= p
  /\ PositionKey("9x16", "static") \notin DOMAIN config
  /\ config_file = PartialFile
  /\ prev.config = config

\* the mapping the Compositor was constructed with, which is the mapping at
\* the call of render_all when positions are set from the callback only
ConfigAtCall == load_config(PartialFile)

\* C28: expansion is a snapshot taken before execution.  The job list is
\* complete before the first job is handed to a compositor and is not
\* changed afterwards; every job, handed to its compositor already or still
\* pending, carries the record the store answered at expansion, also when
\* set_position is called from the progress callback while the batch is
\* executing.
C28_ExpansionIsSnapshot ==
  /\ [](/\ \A p \in 1..Len(all_tasks) :
             all_tasks[p].pos =
               get_position(ConfigAtCall, all_tasks[p].fmt, all_tasks[p].task_type)
        /\ \A n \in 1..Len(dispatched) :
             /\ dispatched[n].job = n
             /\ n <= Len(all_tasks)
        /\ (dispatched # <<>> \/ last_set.called) =>
             /\ pc \in {"exec", "callback", "dispatch", "compositing", "done"}
             /\ Len(all_tasks) = total)
  /\ [][(pc \in {"exec", "callback", "dispatch", "compositing"}) =>
          (all_tasks' = all_tasks)]_vars

\* C28 witness: job 1 has run and job 2 is about to be handed to its
\* compositor; set_position was called from the callback for the key of both
\* jobs, and both still carry the record of the expansion, not the stored one
C28_Witness ==
  /\ pc = "dispatch"
  /\ i = 1
  /\ Len(returned) = 1
  /\ last_set.called
  /\ \A p \in {1, 2} :
       /\ all_tasks[p].fmt \o "_" \o all_tasks[p].task_type = last_set.key
       /\ all_tasks[p].pos # config[last_set.key]
  /\ config_file = Present(json_dump(config))

\* the rank of a format and of a kind in the order of the job list
FormatRank(fmt) == IF fmt = "1x1" THEN 1 ELSE 2
KindRank(kind) == IF kind = "static" THEN 1 ELSE 2

\* job p comes before job q in the order (format, hero index, kind with
\* static before video, overlay index)
SortsBefore(p, q) ==
  LET f1 == FormatRank(all_tasks[p].fmt)
      f2 == FormatRank(all_tasks[q].fmt)
      k1 == KindRank(all_tasks[p].task_type)
      k2 == KindRank(all_tasks[q].task_type)
  IN \/ f1 < f2
     \/ f1 = f2 /\ task_src[p].hero < task_src[q].hero
     \/ f1 = f2 /\ task_src[p].hero = task_src[q].hero /\ k1 < k2
     \/ /\ f1 = f2 /\ task_src[p].hero = task_src[q].hero /\ k1 = k2
        /\ task_src[p].overlay < task_src[q].overlay

\* C29: kinds are interleaved per hero, not per format.  The job list is
\* strictly sorted by (format, hero index, kind with static before video,
\* overlay index): within a format the static jobs of a hero precede the
\* video jobs of that hero, and the static jobs of the next hero come after
\* them.
C29_KindsInterleavedPerHero ==
  AtLoopHead =>
    /\ \A p, q \in 1..Len(all_tasks) : p < q => SortsBefore(p, q)
    /\ \A p, q \in 1..Len(all_tasks) :
         ( /\ all_tasks[p].fmt = all_tasks[q].fmt
           /\ all_tasks[p].task_type = "video"
           /\ all_tasks[q].task_type = "static" ) =>
           (p < q <=> task_src[p].hero < task_src[q].hero)

\* C29 witness: two heroes of one format with a static and a video overlay:
\* the video job of the first hero stands before the static job of the second
C29_Witness ==
  /\ pc = "exec"
  /\ Len(all_tasks) = 4
  /\ all_tasks[1].fmt = "1x1"
  /\ all_tasks[2].task_type = "video"
  /\ task_src[2].hero = 1
  /\ all_tasks[3].task_type = "static"
  /\ task_src[3].hero = 2
  /\ all_tasks[3].fmt = "1x1"

\* C30: the progress sequence of a batch of n jobs.  The k-th invocation of
\* the callback carries the count k, the total n and the description
\* "Rendering " followed by the file name of the output of job k; the total
\* of an invocation is never 0, a batch of no job invokes nothing, and when
\* render_all returns the callback passed to it has been invoked exactly n
\* times.
C30_ProgressSequence ==
  /\ \A k \in 1..Len(calls) :
       /\ calls[k].current = k
       /\ calls[k].total = Len(all_tasks)
       /\ calls[k].total # 0
       /\ k <= Len(all_tasks)
       /\ calls[k].message = "Rendering " \o PathName(all_tasks[k].output_path)
  /\ Len(all_tasks) = 0 => calls = <<>>
  /\ (pc = "done" /\ progress_callback) => Len(calls) = Len(all_tasks)

\* C30 witness: a batch of two jobs has returned after two invocations, the
\* second one with the count 2 of 2 and the name of the video job's output
C30_Witness ==
  /\ pc = "done"
  /\ progress_callback
  /\ Len(all_tasks) = 2
  /\ Len(calls) = 2
  /\ calls[2].current = 2
  /\ calls[2].total = 2
  /\ calls[2].message = "Rendering a_o.mp4"
  /\ calls[1].message = "Rendering a_o.png"
====
